---- MODULE Spec2Model ----
(***************************************************************************)
(* State-machine model of _FullyShardedDataParallel                       *)
(* (oslo/torch/nn/parallel/data_parallel/zero/fully_sharded_data_parallel) *)
(* together with the Chunk / ChunkManager / HeterogeneousMemoryManager /   *)
(* HeterogeneousZeROHook collaborators it drives.  The wrapper's handlers  *)
(* are translated from the Python source; the collaborators, whose source  *)
(* is not part of the tree, follow the design document.                    *)
(*                                                                         *)
(* The W workers of the data-parallel group run the same handler sequence  *)
(* (SPMD); the model advances them in lock step and keeps one copy of the  *)
(* control state and one buffer per worker for every chunk.                *)
(*                                                                         *)
(* Numbers are fixed point: a stored integer v stands for                  *)
(* v / (pg_size * pg_size), so that dividing twice by pg_size is exact.    *)
(***************************************************************************)
EXTENDS Integers, Sequences, FiniteSets, TLC

VARIABLES
    cfg,        \* the immutable construction result: group size, policy, chunk layout
    self,       \* the _FullyShardedDataParallel object (nested records)
    pc,         \* where the engine is: idle / fwd / fwd_done / bwd / error
    grad_flag,  \* torch.is_grad_enabled() of the forward call in progress
    err,        \* the exception the last handler raised, or NoErr
    last,       \* what the last handler call was and what it returned
    hist,       \* per-step observations: reductions fired, gradients supplied
    mod,        \* the wrapped module handed to __init__ (construction / state-dict runs)
    bld,        \* __init__ / _init_chunks in progress: chunk groups, registration, pairing
    st,         \* the tensors' storage: master and compute chunks, ignored parameters, buffers
    io,         \* state_dict / load_state_dict calls in progress and their results
    dp          \* the workers of the data-parallel group, each in its own backward pass

trainVars == <<cfg, self, pc, grad_flag, err, last, hist>>
ioVars == <<mod, bld, st, io>>
vars == <<cfg, self, pc, grad_flag, err, last, hist, mod, bld, st, io, dp>>

\* ------------------------------------------------------------------ bounds
\* largest gradient magnitude the engine supplies (gradients are 1..MaxGrad)
MaxGrad == 2
\* cap on overflow_counter: non-finite gradients are supplied only below it
MaxOverflow == 1
\* how many load_state_dict calls a state-dict run makes
MaxLoads == 1

\* ------------------------------------------------------------------ values
NaN == 0 - 1          \* a non-finite element (inf or nan)
Absent == 0 - 2       \* an element this worker does not hold (outside its shard)

Devices == {"cuda", "cpu"}
TensorStates == {"FREE", "HOLD", "HOLD_AFTER_BWD", "READY_FOR_REDUCE", "COMPUTE"}

NoErr == [kind |-> "none", names |-> {}]
Err(kind, names) == [kind |-> kind, names |-> names]

\* ------------------------------------------------------------------ layouts
T(n, s) == [name |-> n, size |-> s]
Ch(cap, keep, tensors) == [cap |-> cap, keep_gathered |-> keep, tensors |-> tensors]

\* The constructions the model explores.  Each is what __init__ / _init_chunks
\* leave behind: the group size, the placement policy, whether the policy needs a
\* warm-up and whether one is still due (no pre-made trace), the chunks in
\* registration order with their tensors, and the ddp-ignored parameters.
\* max_grad is the largest gradient magnitude the engine supplies there, varying
\* whether it also supplies gradients that differ from worker to worker.
Layouts ==
    { [pg_size |-> 2, policy |-> "cuda", need_warmup |-> FALSE, warmup |-> TRUE,
       ignored |-> {}, max_grad |-> MaxGrad, varying |-> TRUE,
       chunks |-> << Ch(10, FALSE, << T("A", 4), T("B", 6) >>) >>],
      [pg_size |-> 2, policy |-> "cpu", need_warmup |-> TRUE, warmup |-> TRUE,
       ignored |-> {"Z"}, max_grad |-> 1, varying |-> FALSE,
       chunks |-> << Ch(4, FALSE, << T("A", 2), T("B", 2) >>),
                     Ch(2, TRUE, << T("C", 1) >>) >>],
      [pg_size |-> 2, policy |-> "cuda", need_warmup |-> FALSE, warmup |-> FALSE,
       ignored |-> {}, max_grad |-> 1, varying |-> FALSE,
       chunks |-> << Ch(2, FALSE, << T("A", 2) >>),
                     Ch(2, FALSE, << T("B", 2) >>),
                     Ch(2, FALSE, << T("C", 2) >>) >>],
      [pg_size |-> 1, policy |-> "cpu", need_warmup |-> TRUE, warmup |-> FALSE,
       ignored |-> {}, max_grad |-> MaxGrad, varying |-> TRUE,
       chunks |-> << Ch(2, FALSE, << T("A", 1), T("B", 1) >>) >>] }

Workers == 1 .. cfg.pg_size
Chunks == 1 .. Len(cfg.chunks)
Scale == cfg.pg_size * cfg.pg_size

RECURSIVE SeqSum(_)
SeqSum(s) == IF s = << >> THEN 0 ELSE Head(s) + SeqSum(Tail(s))

RECURSIVE Flatten(_)
Flatten(ss) == IF ss = << >> THEN << >> ELSE Head(ss) \o Flatten(Tail(ss))

TensorNames(c) == [i \in 1 .. Len(cfg.chunks[c].tensors) |-> cfg.chunks[c].tensors[i].name]
ChunkTensors(c) == {cfg.chunks[c].tensors[i].name : i \in 1 .. Len(cfg.chunks[c].tensors)}

\* self.fp16_params: the registered compute-precision parameters, registration order
fp16_params == Flatten([c \in Chunks |-> TensorNames(c)])
Params == {fp16_params[i] : i \in 1 .. Len(fp16_params)}
\* self.param2name: every parameter of the module, ignored ones included
param2name == Params \cup cfg.ignored

\* ChunkManager.get_chunk: the chunk that owns a tensor
get_chunk(p) == CHOOSE c \in Chunks : p \in ChunkTensors(c)
\* ChunkManager.get_chunks: owning chunks of a list, deduplicated
get_chunks(ps) == {get_chunk(ps[i]) : i \in 1 .. Len(ps)}

TensorIdx(p) == CHOOSE i \in 1 .. Len(cfg.chunks[get_chunk(p)].tensors) :
                    cfg.chunks[get_chunk(p)].tensors[i].name = p
\* tensors_info[p].offset / .end (1-based, inclusive slice first..last)
TensorSizes(c) == [i \in 1 .. Len(cfg.chunks[c].tensors) |-> cfg.chunks[c].tensors[i].size]
Offset(p) == SeqSum(SubSeq(TensorSizes(get_chunk(p)), 1, TensorIdx(p) - 1))
Slice(p) == (Offset(p) + 1) .. (Offset(p) + cfg.chunks[get_chunk(p)].tensors[TensorIdx(p)].size)
first_param(c) == cfg.chunks[c].tensors[1].name

Cap(c) == cfg.chunks[c].cap
Keep(c) == cfg.chunks[c].keep_gathered
ShardLen(c) == Cap(c) \div cfg.pg_size
\* the worker whose shard [shard_begin, shard_end) holds element i of chunk c
Owner(c, i) == ((i - 1) \div ShardLen(c)) + 1

\* HeterogeneousMemoryManager.default_device of the placement policy
default_device == cfg.policy

\* ------------------------------------------------------------------ Chunk
\* The legal tensor-state transitions: the forward cycle HOLD -> COMPUTE -> HOLD,
\* the backward cycle HOLD -> COMPUTE -> HOLD_AFTER_BWD -> READY_FOR_REDUCE -> HOLD,
\* and the re-use of a tensor that is touched again before its gradient is ready.
STATE_TRANS ==
    { <<"FREE", "HOLD">>, <<"FREE", "COMPUTE">>, <<"HOLD", "FREE">>,
      <<"HOLD", "COMPUTE">>, <<"COMPUTE", "HOLD">>, <<"COMPUTE", "HOLD_AFTER_BWD">>,
      <<"HOLD_AFTER_BWD", "COMPUTE">>, <<"HOLD_AFTER_BWD", "READY_FOR_REDUCE">>,
      <<"READY_FOR_REDUCE", "HOLD">> }

\* element arithmetic with non-finite values
Add(a, b) == IF a = NaN \/ b = NaN THEN NaN ELSE a + b
Div(a, n) == IF a = NaN THEN NaN ELSE a \div n

RECURSIVE SumWorkers(_, _, _, _)
\* the reduce-scatter's sum of element i of chunk c over workers 1..w
SumWorkers(data, c, i, w) ==
    IF w = 0 THEN 0 ELSE Add(data[w][c][i], SumWorkers(data, c, i, w - 1))

\* what an all-gather of chunk c yields: every element taken from its owner's shard
FullOf(cm, c) == [i \in 1 .. Cap(c) |-> cm.data[Owner(c, i)][c][i]]

\* the chunk's logical content: the full buffer when gathered (worker w's copy),
\* else the concatenation of the workers' shards
Logical(cm, c, w) == IF cm.is_gathered[c] THEN cm.data[w][c] ELSE FullOf(cm, c)


\* mutant: release does not look at keep_gathered
can_release_IgnoresKeep(cm, c) ==
    \A p \in ChunkTensors(c) : cm.tstate[p] \in {"HOLD", "HOLD_AFTER_BWD"}

\* Chunk.can_release
can_release(cm, c) ==
    /\ ~Keep(c)
    /\ \A p \in ChunkTensors(c) : cm.tstate[p] \in {"HOLD", "HOLD_AFTER_BWD"}

\* Chunk.can_reduce: every member tensor is READY_FOR_REDUCE
can_reduce(cm, c) == \A p \in ChunkTensors(c) : cm.tstate[p] = "READY_FOR_REDUCE"

\* Chunk.gather: all-gather the shards into the full buffer on the fast device
Chunk_gather(cm, c) ==
    IF cm.is_gathered[c] THEN cm
    ELSE [cm EXCEPT !.data = [w \in Workers |-> [@[w] EXCEPT ![c] = FullOf(cm, c)]],
                    !.is_gathered[c] = TRUE,
                    !.device[c] = "cuda"]

\* Chunk.release: drop the full buffer, keep this worker's 1/W shard
Chunk_release(cm, c) ==
    [cm EXCEPT !.data = [w \in Workers |->
                            [@[w] EXCEPT ![c] = [i \in 1 .. Cap(c) |->
                                IF Owner(c, i) = w THEN cm.data[w][c][i] ELSE Absent]]],
               !.is_gathered[c] = FALSE]

\* Chunk.reduce: reduce-scatter (all-reduce for a keep_gathered chunk), divide by
\* the group size, set the overflow indicator, put every member tensor back to HOLD
Chunk_reduce(cm, c) ==
    LET red == [i \in 1 .. Cap(c) |->
                   Div(SumWorkers(cm.data, c, i, cfg.pg_size), cfg.pg_size)]
    IN  [cm EXCEPT
            !.data = [w \in Workers |->
                         [@[w] EXCEPT ![c] = [i \in 1 .. Cap(c) |->
                             IF Keep(c) \/ Owner(c, i) = w THEN red[i] ELSE Absent]]],
            !.is_gathered[c] = Keep(c),
            !.has_inf_or_nan[c] = (\E i \in 1 .. Cap(c) : red[i] = NaN),
            !.tstate = [p \in DOMAIN @ |-> IF p \in ChunkTensors(c) THEN "HOLD" ELSE @[p]]]

\* Chunk.copy_tensor_to_chunk_slice: land worker w's gradient g[w] in p's slice
copy_tensor_to_chunk_slice(cm, p, g) ==
    LET c == get_chunk(p)
        slice == Slice(p)
    IN  [cm EXCEPT !.data = [w \in Workers |->
                                [@[w] EXCEPT ![c] = [i \in 1 .. Cap(c) |->
                                    IF i \in slice /\ cm.data[w][c][i] # Absent
                                    THEN g[w] ELSE cm.data[w][c][i]]]]]

\* the in-place div_(pg_size) of grad_handle on whatever buffer the chunk holds
div_(cm, c, n) ==
    [cm EXCEPT !.data = [w \in Workers |->
                            [@[w] EXCEPT ![c] = [i \in 1 .. Cap(c) |->
                                IF cm.data[w][c][i] = Absent THEN Absent
                                ELSE Div(cm.data[w][c][i], n)]]]]


\* mutant: a transition is applied without being validated
TransOk_Unchecked(cm, p, new) == TRUE

\* ------------------------------------------------------------------ ChunkManager
\* ChunkManager.trans_tensor_state: a validated transition
TransOk(cm, p, new) == <<cm.tstate[p], new>> \in STATE_TRANS
trans_tensor_state(cm, p, new) == [cm EXCEPT !.tstate[p] = new]

RECURSIVE TransAll(_, _, _)
\* trans_tensor_state over a list, in order; stops at the first illegal transition
\* (bad names the tensor), the earlier transitions staying applied
TransAll(cm, ps, new) ==
    IF ps = << >> THEN [cm |-> cm, bad |-> {}]
    ELSE IF ~TransOk(cm, Head(ps), new) THEN [cm |-> cm, bad |-> {Head(ps)}]
    ELSE TransAll(trans_tensor_state(cm, Head(ps), new), Tail(ps), new)

\* ChunkManager.access_chunk: bring the chunk to the fast device, gather it, track it
access_chunk(cm, c) ==
    IF c \in cm.accessed_chunks THEN cm
    ELSE [Chunk_gather(cm, c) EXCEPT !.device[c] = "cuda",
                                     !.accessed_chunks = @ \cup {c},
                                     !.accessed_mem = @ + Cap(c)]

\* ChunkManager.release_chunk: nothing happens unless the chunk can be released
release_chunk(cm, c) ==
    IF c \notin cm.accessed_chunks \/ ~can_release(cm, c) THEN cm
    ELSE [Chunk_release(cm, c) EXCEPT !.accessed_chunks = @ \ {c},
                                      !.accessed_mem = @ - Cap(c)]

\* ChunkManager.fake_release_chunk: the bookkeeping of a release, no buffer freed
fake_release_chunk(cm, c) ==
    IF c \notin cm.accessed_chunks THEN cm
    ELSE [cm EXCEPT !.accessed_chunks = @ \ {c}, !.accessed_mem = @ - Cap(c)]

\* ChunkManager.move_chunk
move_chunk(cm, c, dev) == [cm EXCEPT !.device[c] = dev]

\* ChunkManager.reduce_chunk: [cm, reduced]
reduce_chunk(cm, c) ==
    IF ~can_reduce(cm, c) THEN [cm |-> cm, reduced |-> FALSE]
    ELSE [cm |-> fake_release_chunk(Chunk_reduce(cm, c), c), reduced |-> TRUE]

RECURSIVE AccessAll(_, _, _)
AccessAll(cm, cs, c) ==
    IF c > Len(cfg.chunks) THEN cm
    ELSE AccessAll(IF c \in cs THEN access_chunk(cm, c) ELSE cm, cs, c + 1)

RECURSIVE ReleaseAll(_, _, _)
ReleaseAll(cm, cs, c) ==
    IF c > Len(cfg.chunks) THEN cm
    ELSE ReleaseAll(IF c \in cs THEN release_chunk(cm, c) ELSE cm, cs, c + 1)

\* ------------------------------------------------------------------ access hook
\* HeterogeneousZeROHook.pre_forward / pre_backward: mark the tensors COMPUTE,
\* gather their chunks, record the access.  [cm, hm, bad]
pre_op(cm, hm, ps) ==
    LET t == TransAll(cm, ps, "COMPUTE")
    IN  IF t.bad # {} THEN [cm |-> t.cm, hm |-> hm, bad |-> t.bad]
        ELSE [cm |-> AccessAll(t.cm, get_chunks(ps), 1),
              hm |-> [hm EXCEPT !.recorded = TRUE],
              bad |-> {}]

\* the state a tensor is left in after use, by training phase
PostState(phase) == IF phase = "forward" THEN "HOLD" ELSE "HOLD_AFTER_BWD"

\* HeterogeneousZeROHook.post_forward: outside inference, a chunk with no tensor
\* pending use is released; in inference it stays for _post_forward.  [cm, bad]
post_forward(cm, ps, phase, grad_enabled) ==
    LET t == TransAll(cm, ps, PostState(phase))
    IN  IF t.bad # {} \/ ~grad_enabled THEN t
        ELSE [cm |-> ReleaseAll(t.cm, get_chunks(ps), 1), bad |-> {}]

\* HeterogeneousZeROHook.post_backward: the chunk stays gathered until reduced
post_backward(cm, ps, phase) == TransAll(cm, ps, PostState(phase))

\* HeterogeneousZeROHook.toggle_training_phase
toggle_training_phase(phase) == IF phase = "forward" THEN "backward" ELSE "forward"

\* HeterogeneousMemoryManager.reset_attributes: the per-iteration tracking (recorded:
\* whether it holds any access of the running iteration) is cleared
reset_attributes(hm) == [hm EXCEPT !.recorded = FALSE]
\* HeterogeneousMemoryManager.post_iter: the warm-up pass is over, transients cleared
post_iter(hm) == reset_attributes([hm EXCEPT !.warmup = FALSE])
\* HeterogeneousMemoryManager.is_warmup
is_warmup(hm) == hm.warmup

\* ------------------------------------------------------------------ _FullyShardedDataParallel
\* _init_chunks: the gradient destination of a parameter is the policy's default
\* device, and the fast device for the members of a keep_gathered chunk
init_grads_device == [p \in Params |-> IF Keep(get_chunk(p)) THEN "cuda" ELSE default_device]

\* the object after __init__
InitSelf ==
    [cm |-> [tstate |-> [p \in Params |-> "HOLD"],
             is_gathered |-> [c \in Chunks |-> Keep(c)],
             device |-> [c \in Chunks |-> IF Keep(c) THEN "cuda" ELSE default_device],
             accessed_chunks |-> {},
             accessed_mem |-> 0,
             data |-> [w \in Workers |-> [c \in Chunks |-> [i \in 1 .. Cap(c) |->
                          IF Keep(c) \/ Owner(c, i) = w THEN 0 ELSE Absent]]],
             has_inf_or_nan |-> [c \in Chunks |-> FALSE]],
     hm |-> [warmup |-> cfg.warmup, recorded |-> FALSE],
     phase |-> "forward",
     overflow_counter |-> 0,
     grads_device |-> init_grads_device,
     reduced_label |-> [p \in param2name |-> "unset"],
     has_grad |-> {}]

Ok(s) == [self |-> s, exc |-> NoErr]
Raise(s, kind, names) == [self |-> s, exc |-> Err(kind, names)]

RECURSIVE PostForwardLoop(_, _, _, _)
\* the loop of _post_forward over access_list, from chunk c on.  [cm, failed]
PostForwardLoop(cm, gd, access_list, c) ==
    IF c > Len(cfg.chunks) THEN [cm |-> cm, failed |-> FALSE]
    ELSE IF c \notin access_list THEN PostForwardLoop(cm, gd, access_list, c + 1)
    ELSE IF ~Keep(c) /\ ~can_release(cm, c) THEN [cm |-> cm, failed |-> TRUE]
    ELSE PostForwardLoop(
             move_chunk(IF Keep(c) THEN fake_release_chunk(cm, c) ELSE release_chunk(cm, c),
                        c, gd[first_param(c)]),
             gd, access_list, c + 1)

\* _post_forward (inference only): scatter every accessed chunk, move it to the
\* gradient device of its first tensor, check the counter, reset the manager
_post_forward(s) ==
    LET r == PostForwardLoop(s.cm, s.grads_device, s.cm.accessed_chunks, 1)
    IN  IF r.failed THEN Raise([s EXCEPT !.cm = r.cm], "assert", {})
        ELSE IF r.cm.accessed_mem # 0 THEN Raise([s EXCEPT !.cm = r.cm], "assert", {})
        ELSE Ok([s EXCEPT !.cm = r.cm, !.hm = reset_attributes(s.hm)])



\* mutant: the warm-up assertion is made after pre_iter and pre_forward have run
forward_begin_LateAssert(s, gf) ==
    LET r == pre_op(s.cm, s.hm, fp16_params)
    IN  IF r.bad # {} THEN Raise([s EXCEPT !.cm = r.cm], "transition", r.bad)
        ELSE IF ~gf /\ cfg.need_warmup /\ is_warmup(s.hm)
        THEN Raise([s EXCEPT !.cm = r.cm, !.hm = r.hm], "assert_warmup", {})
        ELSE Ok([s EXCEPT !.cm = r.cm, !.hm = r.hm])

\* mutant: forward runs the wrapped module without notifying the access hook
forward_begin_NoHook(s, gf) ==
    IF ~gf /\ cfg.need_warmup /\ is_warmup(s.hm) THEN Raise(s, "assert_warmup", {})
    ELSE Ok(s)

\* forward, up to the call of the wrapped module: the warm-up assertion of the
\* inference mode, pre_iter, pre_forward(fp16_params)
forward_begin(s, gf) ==
    IF ~gf /\ cfg.need_warmup /\ is_warmup(s.hm) THEN Raise(s, "assert_warmup", {})
    ELSE LET r == pre_op(s.cm, s.hm, fp16_params)
         IN  IF r.bad # {} THEN Raise([s EXCEPT !.cm = r.cm], "transition", r.bad)
             ELSE Ok([s EXCEPT !.cm = r.cm, !.hm = r.hm])


\* mutant: the inference cleanup is not run
forward_end_NoCleanup(s, gf) ==
    LET r == post_forward(s.cm, fp16_params, s.phase, gf)
    IN  IF r.bad # {} THEN Raise([s EXCEPT !.cm = r.cm], "transition", r.bad)
        ELSE Ok([s EXCEPT !.cm = r.cm])

\* forward, after the wrapped module returned: post_forward(fp16_params), and
\* _post_forward when gradients are disabled
forward_end(s, gf) ==
    LET r == post_forward(s.cm, fp16_params, s.phase, gf)
    IN  IF r.bad # {} THEN Raise([s EXCEPT !.cm = r.cm], "transition", r.bad)
        ELSE IF ~gf THEN _post_forward([s EXCEPT !.cm = r.cm])
        ELSE Ok([s EXCEPT !.cm = r.cm])

\* _pre_backward
_pre_backward(s) ==
    LET s1 == [s EXCEPT !.phase = toggle_training_phase(@),
                        !.reduced_label = [p \in param2name |->
                            IF p \in cfg.ignored THEN @[p] ELSE "False"]]
        r == pre_op(s1.cm, s1.hm, fp16_params)
    IN  IF r.bad # {} THEN Raise([s1 EXCEPT !.cm = r.cm], "transition", r.bad)
        ELSE Ok([s1 EXCEPT !.cm = r.cm, !.hm = r.hm])

\* the parameters the error of _post_backward lists
error_params(s) == {p \in param2name : p \notin cfg.ignored /\ s.reduced_label[p] # "True"}

\* _setup_grads_ptr: p.grad = None for every non-ignored parameter
_setup_grads_ptr(s) == [s EXCEPT !.has_grad = @ \cap cfg.ignored]

\* _post_backward
_post_backward(s) ==
    LET s1 == [s EXCEPT !.phase = toggle_training_phase(@)]
    IN  IF s1.cm.accessed_mem # 0 THEN Raise(s1, "reduction", error_params(s1))
        ELSE Ok([_setup_grads_ptr(s1) EXCEPT !.hm = post_iter(@)])


\* mutant: the state check of grad_handle is missing
unsupported_path_Unchecked(s, p) == FALSE

\* grad_handle, the check of line 237: the tensor is not HOLD_AFTER_BWD
unsupported_path(s, p) == s.cm.tstate[p] # "HOLD_AFTER_BWD"


\* mutant: the gradient is landed but reduce_chunk is never called
land_and_reduce_NoReduce(cm0, p, g) ==
    [cm |-> copy_tensor_to_chunk_slice(trans_tensor_state(cm0, p, "READY_FOR_REDUCE"), p, g),
     reduced |-> FALSE]

\* grad_handle, lines 242-244: mark the tensor READY_FOR_REDUCE, land the gradient
\* in its slice, try to reduce the chunk.  [cm, reduced]
land_and_reduce(cm0, p, g) ==
    reduce_chunk(copy_tensor_to_chunk_slice(trans_tensor_state(cm0, p, "READY_FOR_REDUCE"), p, g),
                 get_chunk(p))


\* mutant: the reduced chunk is not divided by the group size in grad_handle
on_reduced_NoDiv(s, cmr, p) ==
    LET c == get_chunk(p)
    IN  [s EXCEPT !.cm = move_chunk(cmr, c, s.grads_device[p]),
                  !.overflow_counter = @ + (IF cmr.has_inf_or_nan[c] THEN 1 ELSE 0)]

\* grad_handle, lines 246-255, run when the reduction fired: divide the buffer the
\* chunk holds by the group size, count an overflow, move the chunk to the
\* gradient device of p
on_reduced(s, cmr, p) ==
    LET c == get_chunk(p)
    IN  [s EXCEPT !.cm = move_chunk(div_(cmr, c, cfg.pg_size), c, s.grads_device[p]),
                  !.overflow_counter = @ + (IF cmr.has_inf_or_nan[c] THEN 1 ELSE 0)]


\* mutant: the division, overflow count and move run whether or not the chunk reduced
after_reduce_Unconditional(s, r, p) ==
    [on_reduced(s, r.cm, p) EXCEPT !.has_grad = @ \cup {p}]

\* grad_handle, lines 245-256: the branch on `reduced`, and the placeholder
\* gradient handed back to the engine (p.grad is set)
after_reduce(s, r, p) ==
    [(IF r.reduced THEN on_reduced(s, r.cm, p) ELSE [s EXCEPT !.cm = r.cm])
        EXCEPT !.has_grad = @ \cup {p}]

\* grad_handle(p, grad); g[w] is worker w's gradient.  [self, exc, reduced]
grad_handle(s, p, g) ==
    LET r0 == post_backward(s.cm, <<p>>, s.phase)
        s0 == [s EXCEPT !.cm = r0.cm]
    IN  IF r0.bad # {} THEN Raise(s0, "transition", r0.bad) @@ [reduced |-> FALSE]
        ELSE IF unsupported_path(s0, p)
        THEN Raise(s0, "unsupported", {p}) @@ [reduced |-> FALSE]
        ELSE LET r == land_and_reduce(s0.cm, p, g)
             IN  Ok(after_reduce(s0, r, p)) @@ [reduced |-> r.reduced]


\* mutant: only the first tensor of the chunk is re-targeted
set_chunk_grad_device_FirstOnly(s, c, dev) ==
    [s EXCEPT !.grads_device[first_param(c)] = dev]

\* set_chunk_grad_device
set_chunk_grad_device(s, c, dev) ==
    [s EXCEPT !.grads_device = [p \in Params |-> IF p \in ChunkTensors(c) THEN dev ELSE @[p]]]

\* ------------------------------------------------------------------ the wrapped module
\* a declared parameter: name, shape (its dimensions; << >> is a scalar), requires_grad
Prm(n, shape, rg) == [name |-> n, shape |-> shape, requires_grad |-> rg]

RECURSIVE numel(_)
numel(shape) == IF shape = << >> THEN 1 ELSE Head(shape) * numel(Tail(shape))

\* The modules the construction and state-dict runs explore: the data-parallel group
\* size, the placement policy, the chunk size the search settled on and whether the
\* chunks of the groups are kept gathered, the parameters in declaration order, the
\* persistent buffers, and the pre-made memory statistics when there are any
\* (premade; trace is their runtime visitation order, which lists the parameters
\* the traced run visited).
Modules ==
    { [pg_size |-> 2, policy |-> "cuda", chunk_size |-> 4, keep_gathered |-> FALSE,
       decl |-> << Prm("A", <<2, 2>>, TRUE), Prm("B", <<4>>, TRUE) >>,
       buffers |-> {}, premade |-> FALSE, trace |-> << >>],
      [pg_size |-> 2, policy |-> "cpu", chunk_size |-> 4, keep_gathered |-> FALSE,
       decl |-> << Prm("A", <<2>>, TRUE), Prm("B", <<2>>, TRUE) >>,
       buffers |-> {}, premade |-> TRUE, trace |-> << "B", "A" >>],
      [pg_size |-> 2, policy |-> "cpu", chunk_size |-> 2, keep_gathered |-> FALSE,
       decl |-> << Prm("A", <<2>>, TRUE), Prm("S", << >>, TRUE), Prm("Z", <<2>>, FALSE) >>,
       buffers |-> {"R"}, premade |-> FALSE, trace |-> << >>],
      [pg_size |-> 2, policy |-> "cuda", chunk_size |-> 2, keep_gathered |-> FALSE,
       decl |-> << Prm("A", <<2>>, TRUE), Prm("U", <<2>>, TRUE) >>,
       buffers |-> {}, premade |-> TRUE, trace |-> << "A" >>],
      [pg_size |-> 2, policy |-> "cpu", chunk_size |-> 2, keep_gathered |-> TRUE,
       decl |-> << Prm("A", <<2>>, TRUE), Prm("B", <<1>>, TRUE), Prm("C", <<1>>, TRUE) >>,
       buffers |-> {}, premade |-> FALSE, trace |-> << >>] }

\* module.named_parameters(): the declared names, declaration order
DeclNames(m) == [i \in 1 .. Len(m.decl) |-> m.decl[i].name]
DeclIdx(m, n) == CHOOSE i \in 1 .. Len(m.decl) : m.decl[i].name = n
DeclOf(m, n) == m.decl[DeclIdx(m, n)]
SeqSet(q) == {q[i] : i \in 1 .. Len(q)}

\* ------------------------------------------------------------------ chunk groups
\* tensors of a chunk, and the elements they occupy
GNames(ch) == {ch.tensors[i].name : i \in 1 .. Len(ch.tensors)}
GUsed(ch) == SeqSum([i \in 1 .. Len(ch.tensors) |-> ch.tensors[i].size])
\* the chunks of a group that hold tensor n
GOwners(group, n) == {c \in 1 .. Len(group) : n \in GNames(group[c])}
\* ChunkManager.get_chunk in a group
GChunkOf(group, n) == CHOOSE c \in 1 .. Len(group) : n \in GNames(group[c])
GIdx(ch, n) == CHOOSE i \in 1 .. Len(ch.tensors) : ch.tensors[i].name = n
\* tensors_info[n].offset (elements before n in its chunk) and its size
GOffset(group, n) ==
    LET ch == group[GChunkOf(group, n)]
    IN  SeqSum([i \in 1 .. GIdx(ch, n) - 1 |-> ch.tensors[i].size])
GSize(group, n) ==
    LET ch == group[GChunkOf(group, n)] IN ch.tensors[GIdx(ch, n)].size
GSlice(group, n) == (GOffset(group, n) + 1) .. (GOffset(group, n) + GSize(group, n))

\* ChunkManager.register_tensor: the tensor goes to the open (last) chunk of its
\* group; a new chunk is opened when there is none or the tensor would overflow it
register_tensor(group, t, m) ==
    IF group = << >> \/ GUsed(group[Len(group)]) + t.size > m.chunk_size
    THEN Append(group, Ch(m.chunk_size, m.keep_gathered, << t >>))
    ELSE [group EXCEPT ![Len(group)].tensors = Append(@, t)]

\* Chunk.init_pair: the pairing is set once; a later call must name the same chunk
init_pair_ok(pairs, c32, c16) == pairs[c32] \in {0, c16}
init_pair(pairs, c32, c16) == IF pairs[c32] = 0 THEN [pairs EXCEPT ![c32] = c16] ELSE pairs

\* ------------------------------------------------------------------ __init__ / _init_chunks

\* mutant: the pre-made visitation order is not used
param_order_DeclOnly(m) == DeclNames(m)

\* __init__, lines 129-137: chunks are built in the runtime visitation order of the
\* pre-made memory statistics, else in the order the parameters were declared
param_order(m) == IF m.premade THEN m.trace ELSE DeclNames(m)

\* construction before _init_chunks starts
InitBld(m) ==
    [pc |-> "register", order |-> param_order(m), pos |-> 1,
     g16 |-> << >>, g32 |-> << >>, closed |-> FALSE,
     fp16_params |-> << >>, fp32_params |-> << >>, ignored |-> {},
     grads_device |-> << >>, pairpos |-> 1, paired_chunk |-> << >>,
     param2name |-> {}]


\* mutant: the parameter is appended to fp16_params / fp32_params before the
\* ignored check, so an ignored parameter is listed without being registered
init_chunks_register_ListsIgnored(b, m) ==
    LET n == b.order[b.pos]
        d == DeclOf(m, n)
        ign == IF ~d.requires_grad THEN b.ignored \cup {n} ELSE b.ignored
        t == T(n, numel(d.shape))
        b1 == [b EXCEPT !.ignored = ign, !.pos = @ + 1,
                        !.fp16_params = Append(@, n), !.fp32_params = Append(@, n)]
    IN  IF n \in ign THEN b1
        ELSE [b1 EXCEPT !.g16 = register_tensor(@, t, m),
                        !.g32 = register_tensor(@, t, m)]

\* _init_chunks, one pass of the loop of lines 611-648 over param_order: a parameter
\* without gradient is ignored; an ignored one is skipped; the others get a master
\* copy, both are registered in their groups and listed, and the gradient
\* destination defaults to the policy's device
init_chunks_register(b, m) ==
    LET n == b.order[b.pos]
        d == DeclOf(m, n)
        ign == IF ~d.requires_grad THEN b.ignored \cup {n} ELSE b.ignored
        t == T(n, numel(d.shape))
    IN  IF n \in ign THEN [b EXCEPT !.ignored = ign, !.pos = @ + 1]
        ELSE [b EXCEPT !.ignored = ign, !.pos = @ + 1,
                       !.g16 = register_tensor(@, t, m),
                       !.g32 = register_tensor(@, t, m),
                       !.fp16_params = Append(@, n),
                       !.fp32_params = Append(@, n),
                       !.grads_device = Append(@, m.policy)]

\* _init_chunks, line 650: close_all_groups
init_chunks_close(b) ==
    [b EXCEPT !.closed = TRUE, !.pc = "pair",
              !.paired_chunk = [c \in 1 .. Len(b.g32) |-> 0]]


\* mutant: chunk_16 is looked up once, for the first parameter, outside the loop
init_chunks_pair_FirstChunk(b, m) ==
    LET i == b.pairpos
        c16 == GChunkOf(b.g16, b.fp16_params[1])
        c32 == GChunkOf(b.g32, b.fp32_params[i])
    IN  IF ~init_pair_ok(b.paired_chunk, c32, c16) THEN [b EXCEPT !.pc = "error"]
        ELSE [b EXCEPT !.pairpos = @ + 1,
                       !.paired_chunk = init_pair(@, c32, c16),
                       !.grads_device[i] = IF b.g16[c16].keep_gathered THEN "cuda" ELSE @]

\* _init_chunks, one pass of the loop of lines 652-659 over the (p, fp32_p) pairs:
\* the master chunk is paired with the compute chunk; gradients of a keep_gathered
\* chunk stay on the fast device
init_chunks_pair(b, m) ==
    LET i == b.pairpos
        c16 == GChunkOf(b.g16, b.fp16_params[i])
        c32 == GChunkOf(b.g32, b.fp32_params[i])
    IN  IF ~init_pair_ok(b.paired_chunk, c32, c16) THEN [b EXCEPT !.pc = "error"]
        ELSE [b EXCEPT !.pairpos = @ + 1,
                       !.paired_chunk = init_pair(@, c32, c16),
                       !.grads_device[i] = IF b.g16[c16].keep_gathered THEN "cuda" ELSE @]

\* __init__, lines 145-150: param2name / name2param over module.named_parameters()
init_names(b, m) == [b EXCEPT !.pc = "ready", !.param2name = SeqSet(DeclNames(m))]

\* ------------------------------------------------------------------ storage
Ranks(m) == 1 .. m.pg_size
GShardLen(m) == m.chunk_size \div m.pg_size
\* the worker whose shard holds element i of a chunk
GOwner(m, i) == ((i - 1) \div GShardLen(m)) + 1
\* worker w holds element i of chunk ch: all of a gathered chunk, else its shard
Held(m, ch, w, i) == ch.keep_gathered \/ GOwner(m, i) = w

\* p.data of a freshly initialised module: element j of parameter n (gen tells one
\* initialisation from the next), and of a buffer
InitVal(m, n, j, gen) == 100 * gen + 10 * DeclIdx(m, n) + j
BufVal(j, gen) == 100 * gen + 90 + j
\* .half(): the compute precision keeps fewer bits than the master precision
half(v) == 2 * (v \div 2)

ChOffset(ch, k) == SeqSum([i \in 1 .. k - 1 |-> ch.tensors[i].size])
\* what a chunk holds once its tensors are appended: tensor data, zero padding behind
ChunkInit(m, ch, gen) ==
    [i \in 1 .. m.chunk_size |->
        IF \E k \in 1 .. Len(ch.tensors) : i - ChOffset(ch, k) \in 1 .. ch.tensors[k].size
        THEN LET k == CHOOSE k \in 1 .. Len(ch.tensors) :
                          i - ChOffset(ch, k) \in 1 .. ch.tensors[k].size
             IN  InitVal(m, ch.tensors[k].name, i - ChOffset(ch, k), gen)
        ELSE 0]

\* the storage after _init_chunks: the master chunks hold p.data.float() (line 622),
\* the compute chunks p.data.half() (line 625), every worker its shard (all of a
\* keep_gathered chunk); ignored parameters are half precision on the fast device
\* (line 618), and so are the buffers (_cast_buffers); a master chunk is gathered
\* when it is keep_gathered and lies on the fast device then, else on the device of
\* the policy (cpu_offload, line 141)
FreshStore(m, b, gen) ==
    [data32 |-> [w \in Ranks(m) |-> [c \in 1 .. Len(b.g32) |-> [i \in 1 .. m.chunk_size |->
                    IF Held(m, b.g32[c], w, i) THEN ChunkInit(m, b.g32[c], gen)[i] ELSE Absent]]],
     data16 |-> [w \in Ranks(m) |-> [c \in 1 .. Len(b.g16) |-> [i \in 1 .. m.chunk_size |->
                    IF Held(m, b.g16[c], w, i) THEN half(ChunkInit(m, b.g16[c], gen)[i])
                    ELSE Absent]]],
     ign |-> [n \in b.ignored |-> [j \in 1 .. numel(DeclOf(m, n).shape) |->
                    half(InitVal(m, n, j, gen))]],
     buf |-> [n \in m.buffers |-> [j \in 1 .. 2 |-> half(BufVal(j, gen))]],
     is_gathered |-> [c \in 1 .. Len(b.g32) |-> b.g32[c].keep_gathered],
     device |-> [c \in 1 .. Len(b.g32) |->
                    IF b.g32[c].keep_gathered THEN "cuda" ELSE m.policy]]

\* the value of master tensor n, read off the shards of the workers that own them
Logical32(s, m, b, n) ==
    LET c == GChunkOf(b.g32, n)
    IN  [j \in 1 .. GSize(b.g32, n) |->
            s.data32[GOwner(m, GOffset(b.g32, n) + j)][c][GOffset(b.g32, n) + j]]

\* ------------------------------------------------------------------ state_dict
\* an entry of a state dictionary: a tensor with its shape, elements and device
Entry(shape, vals, dev) == [shape |-> shape, vals |-> vals, dev |-> dev]
\* torch.empty([0]), line 316
EmptyEntry == Entry(<< 0 >>, << >>, "cpu")
EmptyMap == [k \in {} |-> EmptyEntry]

\* get_temp_total_chunk_on_cuda: the full content of the chunk on the fast device,
\* the chunk's own buffer when it is gathered, else an all-gather of the shards
get_temp_total_chunk_on_cuda(s, m, b, c, w) ==
    IF s.is_gathered[c] THEN s.data32[w][c]
    ELSE [i \in 1 .. m.chunk_size |-> s.data32[GOwner(m, i)][c][i]]

\* _get_param_to_save_data, line 317: record_flag on worker w (rank w - 1)
record_flag(only_rank_0, w) == ~only_rank_0 \/ w = 1


\* mutant: the tensor's region is taken from the start of the chunk
save_chunk_NoOffset(s, m, b, c, w, only_rank_0) ==
    LET temp_chunk == get_temp_total_chunk_on_cuda(s, m, b, c, w)
    IN  [n \in GNames(b.g32[c]) |->
            IF record_flag(only_rank_0, w)
            THEN Entry(DeclOf(m, n).shape, SubSeq(temp_chunk, 1, GSize(b.g32, n)), "cpu")
            ELSE EmptyEntry]

\* _get_param_to_save_data, lines 313-326, for one chunk: where record_flag holds,
\* each tensor's region [offset, end) of the full chunk, viewed in the tensor's
\* shape, on the host; else an empty placeholder
save_chunk(s, m, b, c, w, only_rank_0) ==
    LET temp_chunk == get_temp_total_chunk_on_cuda(s, m, b, c, w)
    IN  [n \in GNames(b.g32[c]) |->
            IF record_flag(only_rank_0, w)
            THEN Entry(DeclOf(m, n).shape,
                       SubSeq(temp_chunk, GOffset(b.g32, n) + 1,
                              GOffset(b.g32, n) + GSize(b.g32, n)), "cpu")
            ELSE EmptyEntry]

\* _save_to_state_dict, lines 352-365, fails: a named parameter that is neither
\* ignored nor in fp16_params has no entry in p_mapping (KeyError)
save_key_error(b) == \E n \in b.param2name : n \notin b.ignored /\ n \notin SeqSet(b.fp16_params)

\* _save_to_state_dict, lines 349-372: the destination built from the recorded
\* master copies: every named parameter (an ignored one as it is, detached), then
\* every persistent buffer
_save_to_state_dict(s, m, b, param_to_save_data) ==
    [k \in b.param2name \cup m.buffers |->
        IF k \in m.buffers THEN Entry(<< 2 >>, s.buf[k], "cuda")
        ELSE IF k \in b.ignored THEN Entry(DeclOf(m, k).shape, s.ign[k], "cuda")
        ELSE param_to_save_data[k]]

\* ------------------------------------------------------------------ load_state_dict
\* the keys a state dictionary may carry, in the order they are walked
KeyUniverse == << "A", "B", "C", "S", "U", "Z", "R", "X" >>

\* _load_from_state_dict, lines 505-513: local_state, the named parameters and the
\* persistent buffers of the module
local_state(m, b) == b.param2name \cup m.buffers
\* the shape of the live tensor behind a key
dest_shape(m, k) == IF k \in m.buffers THEN << 2 >> ELSE DeclOf(m, k).shape

\* load(), lines 519-521: a one-dimensional input for a zero-dimensional tensor is
\* replaced by its first element
compat(entry, dshape) == Len(dshape) = 0 /\ Len(entry.shape) = 1
input_shape(entry, dshape) == IF compat(entry, dshape) THEN << >> ELSE entry.shape
input_vals(entry, dshape) == IF compat(entry, dshape) THEN << entry.vals[1] >> ELSE entry.vals


\* mutant: a size mismatch is reported but the input is copied all the same
load_outcome_NoReturn(inp, k, dshape) ==
    IF k \notin DOMAIN inp THEN "missing" ELSE "copy"

\* load(), lines 516-544, for one key: the key is absent (a missing key), its shape
\* differs from the live tensor's (an error message, nothing copied), or it is copied
load_outcome(inp, k, dshape) ==
    IF k \notin DOMAIN inp THEN "missing"
    ELSE IF input_shape(inp[k], dshape) # dshape THEN "mismatch"
    ELSE "copy"

\* the keys load() is called for, in call order: the ignored parameters (lines
\* 549-552), the tensors of the master chunks chunk by chunk (lines 560-571), the
\* persistent buffers (lines 587-589)
load_calls(m, b) ==
    LET IsIgnored(n) == n \in b.ignored
        IsBuffer(k) == k \in m.buffers
    IN  SelectSeq(DeclNames(m), IsIgnored)
        \o Flatten([c \in 1 .. Len(b.g32) |->
                       [i \in 1 .. Len(b.g32[c].tensors) |-> b.g32[c].tensors[i].name]])
        \o SelectSeq(KeyUniverse, IsBuffer)

\* load() with a key whose tensor is a scalar and whose input is one-dimensional
\* and empty fails on input_param[0] before anything is reported
load_index_error(m, b, inp) ==
    \E k \in SeqSet(load_calls(m, b)) \cap DOMAIN inp :
        compat(inp[k], dest_shape(m, k)) /\ inp[k].vals = << >>

\* mutant: the whole chunk is written back, whatever the worker holds of it
load_chunk_WholeBuffer(s, m, b, inp, c, w) ==
    LET temp_chunk == get_temp_total_chunk_on_cuda(s, m, b, c, w)
        Copied(i) == {n \in GNames(b.g32[c]) :
                         /\ i \in GSlice(b.g32, n)
                         /\ load_outcome(inp, n, dest_shape(m, n)) = "copy"}
    IN  [i \in 1 .. m.chunk_size |->
            IF Copied(i) # {}
            THEN LET n == CHOOSE n \in Copied(i) : TRUE
                 IN  input_vals(inp[n], dest_shape(m, n))[i - GOffset(b.g32, n)]
            ELSE temp_chunk[i]]

\* lines 562-578 for master chunk c on worker w: the full chunk, the slices of the
\* copied keys overwritten, written back to the buffer the worker has of the chunk
\* (the full buffer of a gathered chunk, else its shard)
load_chunk(s, m, b, inp, c, w) ==
    LET temp_chunk == get_temp_total_chunk_on_cuda(s, m, b, c, w)
        Copied(i) == {n \in GNames(b.g32[c]) :
                         /\ i \in GSlice(b.g32, n)
                         /\ load_outcome(inp, n, dest_shape(m, n)) = "copy"}
    IN  [i \in 1 .. m.chunk_size |->
            IF ~(s.is_gathered[c] \/ GOwner(m, i) = w) THEN Absent
            ELSE IF Copied(i) # {}
            THEN LET n == CHOOSE n \in Copied(i) : TRUE
                 IN  input_vals(inp[n], dest_shape(m, n))[i - GOffset(b.g32, n)]
            ELSE temp_chunk[i]]

\* Chunk.optim_update of the paired compute chunk: it takes the master values the
\* worker holds, in compute precision
optim_update(master) ==
    [i \in 1 .. Len(master) |-> IF master[i] = Absent THEN Absent ELSE half(master[i])]

\* _load_from_state_dict on worker w (called with strict = True, line 423): the
\* storage it leaves on w and the lists it fills
_load_from_state_dict(s, m, b, inp, w) ==
    LET calls == load_calls(m, b)
        Missing(k) == load_outcome(inp, k, dest_shape(m, k)) = "missing"
        Mismatch(k) == load_outcome(inp, k, dest_shape(m, k)) = "mismatch"
        Unexpected(k) == k \in DOMAIN inp /\ k \notin local_state(m, b)
        Copy(k) == load_outcome(inp, k, dest_shape(m, k)) = "copy"
        d32 == [c \in 1 .. Len(b.g32) |-> load_chunk(s, m, b, inp, c, w)]
    IN  [data32 |-> d32,
         data16 |-> [c16 \in 1 .. Len(b.g16) |->
                        IF \E c \in 1 .. Len(b.g32) : b.paired_chunk[c] = c16
                        THEN optim_update(d32[CHOOSE c \in 1 .. Len(b.g32) :
                                                  b.paired_chunk[c] = c16])
                        ELSE s.data16[w][c16]],
         ign |-> [n \in DOMAIN s.ign |->
                     IF Copy(n)
                     THEN [j \in 1 .. Len(s.ign[n]) |->
                              half(input_vals(inp[n], dest_shape(m, n))[j])]
                     ELSE s.ign[n]],
         buf |-> [k \in DOMAIN s.buf |->
                     IF Copy(k)
                     THEN [j \in 1 .. Len(s.buf[k]) |->
                              half(input_vals(inp[k], dest_shape(m, k))[j])]
                     ELSE s.buf[k]],
         missing_keys |-> SelectSeq(calls, Missing),
         unexpected_keys |-> SelectSeq(KeyUniverse, Unexpected),
         size_mismatch |-> SelectSeq(calls, Mismatch)]

\* an error message of load_state_dict: its kind and the keys it lists
Msg(kind, keys) == [kind |-> kind, keys |-> keys]


\* mutant: the size-mismatch messages are dropped when strict is off
load_errors_StrictOnly(r, strict) ==
    IF ~strict THEN << >>
    ELSE (IF Len(r.missing_keys) > 0 THEN << Msg("missing", r.missing_keys) >> ELSE << >>)
         \o (IF Len(r.unexpected_keys) > 0 THEN << Msg("unexpected", r.unexpected_keys) >>
             ELSE << >>)
         \o [i \in 1 .. Len(r.size_mismatch) |-> Msg("size", << r.size_mismatch[i] >>)]

\* load_state_dict, lines 429-443: error_msgs when _load_from_state_dict is back: one
\* message per size mismatch, and under strict one message listing the unexpected
\* keys and one listing the missing keys in front of them
load_errors(r, strict) ==
    (IF strict /\ Len(r.missing_keys) > 0 THEN << Msg("missing", r.missing_keys) >> ELSE << >>)
    \o (IF strict /\ Len(r.unexpected_keys) > 0 THEN << Msg("unexpected", r.unexpected_keys) >>
        ELSE << >>)
    \o [i \in 1 .. Len(r.size_mismatch) |-> Msg("size", << r.size_mismatch[i] >>)]

\* load_state_dict on worker w: [storage, lists, error_msgs, raised]; it raises one
\* RuntimeError when error_msgs is not empty (lines 445-450), else it returns the
\* two lists (line 451)
load_state_dict(s, m, b, inp, strict, w) ==
    LET r == _load_from_state_dict(s, m, b, inp, w)
        msgs == load_errors(r, strict)
    IN  [r |-> r, error_msgs |-> msgs, raised |-> Len(msgs) > 0]

\* ------------------------------------------------------------------ state-dict calls
\* state_dict of worker w: where it is (idle, walking the chunk list at chunk k,
\* waiting in the all-gather of chunk k, raised), its only_rank_0 argument, and
\* param_to_save_data so far
SaveIdle == [pc |-> "idle", k |-> 0, only_rank_0 |-> TRUE, data |-> EmptyMap]
\* what state_dict last returned on a worker, with the master tensors' values at
\* that moment
NoSaved == [valid |-> FALSE, map |-> EmptyMap, snap |-> EmptyMap]
\* the last load_state_dict: what was loaded, per worker the input and the outcome
NoLoad == [kind |-> "none", key |-> "", strict |-> TRUE, inp |-> << >>, res |-> << >>]

InitIO(m) ==
    [save |-> [w \in Ranks(m) |-> SaveIdle],
     saved |-> [w \in Ranks(m) |-> NoSaved],
     gen |-> 0, loads |-> 0, load |-> NoLoad]

\* no module is under construction (training runs)
NoModule ==
    [pg_size |-> 1, policy |-> "cuda", chunk_size |-> 1, keep_gathered |-> FALSE,
     decl |-> << >>, buffers |-> {}, premade |-> FALSE, trace |-> << >>]

\* a stored tensor whose shape disagrees with the live one: a scalar stored as a
\* one-dimensional pair, a vector with a leading dimension of one, a matrix flat
Reshaped(e) ==
    IF e.shape = << >> THEN Entry(<< 2 >>, << e.vals[1], e.vals[1] + 1 >>, e.dev)
    ELSE IF Len(e.shape) = 1 THEN Entry(<< 1 >> \o e.shape, e.vals, e.dev)
    ELSE Entry(<< numel(e.shape) >>, e.vals, e.dev)

\* a state dictionary written by hand for the module: every key of local_state,
\* with the live shape and values of its own
MadeMap(m, b) ==
    [k \in local_state(m, b) |->
        Entry(dest_shape(m, k), [j \in 1 .. numel(dest_shape(m, k)) |-> 50 + j], "cpu")]

\* the state dictionaries handed to load_state_dict: what each worker's own
\* state_dict returned, what rank 0's returned, that one with a key dropped, an
\* unknown key added, or a key stored under another shape, and a hand-written one,
\* whole or with a key dropped
LoadKinds ==
    {[kind |-> k, key |-> ""] : k \in {"own", "rank0", "extra", "made"}}
    \cup {[kind |-> k, key |-> n] : k \in {"drop", "reshape"}, n \in DOMAIN io.saved[1].map}
    \cup {[kind |-> "made_drop", key |-> n] : n \in local_state(mod, bld)}

FromSaved(lk) == lk.kind \in {"own", "rank0", "extra", "drop", "reshape"}

LoadInput(lk, w) ==
    LET base == io.saved[1].map
        made == MadeMap(mod, bld)
    IN  IF lk.kind = "own" THEN io.saved[w].map
        ELSE IF lk.kind = "rank0" THEN base
        ELSE IF lk.kind = "extra" THEN base @@ ("X" :> Entry(<< 2 >>, << 1, 2 >>, "cpu"))
        ELSE IF lk.kind = "drop" THEN [k \in DOMAIN base \ {lk.key} |-> base[k]]
        ELSE IF lk.kind = "reshape" THEN [base EXCEPT ![lk.key] = Reshaped(@)]
        ELSE IF lk.kind = "made" THEN made
        ELSE [k \in DOMAIN made \ {lk.key} |-> made[k]]

\* ------------------------------------------------------------------ the engine
\* the gradients the workers supply for one parameter, g[w] being worker w's:
\* the same magnitude 1..max_grad on every worker, where the layout says so a
\* magnitude that differs from worker to worker, and (while the overflow counter is below its cap) a
\* non-finite gradient on one worker
GradInputs ==
    {[w \in Workers |-> k * Scale] : k \in 1 .. cfg.max_grad}
    \cup (IF cfg.varying THEN {[w \in Workers |-> w * Scale]} ELSE {})
    \cup (IF self.overflow_counter < MaxOverflow
          THEN {[w \in Workers |-> IF w = 1 THEN NaN ELSE Scale]} ELSE {})

\* what a handler hands back to the engine: nothing, or a gradient tensor of
\* numel elements, each holding fill
NoRet == [numel |-> 0, fill |-> 0]
\* torch.empty_like(grad), line 234: a tensor of the gradient's shape over
\* uninitialised storage; e is what the storage happens to hold
empty_like(p, e) == [numel |-> Cardinality(Slice(p)), fill |-> e]
\* the values uninitialised storage may hold
UninitValues == {0, 1}

NoCall == [op |-> "init", p |-> "", reduced |-> FALSE, ret |-> NoRet]
Call(op, p, reduced) == [op |-> op, p |-> p, reduced |-> reduced, ret |-> NoRet]

\* observations of the running step: how often each chunk's reduction fired, the
\* gradients landed, the parameters whose grad_handle completed, the overflow
\* counter at _pre_backward
InitHist == [reduce_count |-> [c \in Chunks |-> 0],
             grads_in |-> [p \in Params |-> << >>],
             handled |-> {},
             overflow0 |-> 0]

Init ==
    /\ cfg \in Layouts
    /\ self = InitSelf
    /\ pc = "idle"
    /\ grad_flag = TRUE
    /\ err = NoErr
    /\ last = NoCall
    /\ hist = InitHist
    /\ mod = NoModule
    /\ bld = InitBld(NoModule)
    /\ st = FreshStore(NoModule, bld, 0)
    /\ io = InitIO(NoModule)
    /\ dp = << >>

\* a handler returned or raised
Finish(r, nextpc) ==
    /\ self' = r.self
    /\ err' = r.exc
    /\ pc' = IF r.exc = NoErr THEN nextpc ELSE "error"

\* forward(...) is entered and reaches the wrapped module's forward
ForwardBegin(gf) ==
    /\ pc \in {"idle", "fwd_done", "error"}
    /\ Finish(forward_begin(self, gf), "fwd")
    /\ grad_flag' = gf
    /\ last' = Call("forward_begin", "", FALSE)
    /\ UNCHANGED <<cfg, hist, mod, bld, st, io, dp>>

\* the wrapped module returned; forward(...) runs to its end
ForwardEnd ==
    /\ pc = "fwd"
    /\ Finish(forward_end(self, grad_flag), IF grad_flag THEN "fwd_done" ELSE "idle")
    /\ last' = Call("forward_end", "", FALSE)
    /\ UNCHANGED <<cfg, grad_flag, hist, mod, bld, st, io, dp>>

\* backward(loss) starts: _pre_backward
PreBackward ==
    /\ pc = "fwd_done"
    /\ Finish(_pre_backward(self), "bwd")
    /\ last' = Call("_pre_backward", "", FALSE)
    /\ hist' = [InitHist EXCEPT !.overflow0 = self.overflow_counter]
    /\ UNCHANGED <<cfg, grad_flag, mod, bld, st, io, dp>>

\* the engine's gradient hook of parameter p fires
GradHandle(p, g) ==
    /\ pc = "bwd"
    /\ LET r == grad_handle(self, p, g)
       IN  /\ Finish(r, "bwd")
           /\ \E e \in UninitValues :
                  last' = [Call("grad_handle", p, r.reduced) EXCEPT
                              !.ret = IF r.exc = NoErr THEN empty_like(p, e) ELSE NoRet]
           /\ hist' = IF r.exc # NoErr THEN hist
                      ELSE [hist EXCEPT
                               !.reduce_count[get_chunk(p)] = @ + (IF r.reduced THEN 1 ELSE 0),
                               !.grads_in[p] = g,
                               !.handled = @ \cup {p}]
    /\ UNCHANGED <<cfg, grad_flag, mod, bld, st, io, dp>>

\* the engine's backward returned: _post_backward
PostBackward ==
    /\ pc = "bwd"
    /\ Finish(_post_backward(self), "idle")
    /\ last' = Call("_post_backward", "", FALSE)
    /\ UNCHANGED <<cfg, grad_flag, hist, mod, bld, st, io, dp>>

\* the optimizer re-targets the gradients of a chunk
SetChunkGradDevice(c, dev) ==
    /\ pc = "idle"
    /\ self.grads_device[first_param(c)] # dev
    /\ self' = set_chunk_grad_device(self, c, dev)
    /\ last' = Call("set_chunk_grad_device", "", FALSE)
    /\ UNCHANGED <<cfg, pc, grad_flag, err, hist, mod, bld, st, io, dp>>

Next ==
    \/ \E gf \in BOOLEAN : ForwardBegin(gf)
    \/ ForwardEnd
    \/ PreBackward
    \/ \E p \in Params : \E g \in GradInputs : GradHandle(p, g)
    \/ PostBackward
    \/ \E c \in Chunks : \E dev \in Devices : SetChunkGradDevice(c, dev)

Spec == Init /\ [][Next]_vars

\* ------------------------------------------------------------------ construction and state-dict runs
\* __init__ is entered with a module; no training step runs
InitIOSpec ==
    /\ mod \in Modules
    /\ bld = InitBld(mod)
    /\ st = FreshStore(mod, bld, 0)
    /\ io = InitIO(mod)
    /\ cfg = [pg_size |-> mod.pg_size, policy |-> mod.policy, need_warmup |-> FALSE,
              warmup |-> FALSE, ignored |-> {}, max_grad |-> 1, varying |-> FALSE,
              chunks |-> << >>]
    /\ self = InitSelf
    /\ pc = "idle"
    /\ grad_flag = TRUE
    /\ err = NoErr
    /\ last = NoCall
    /\ hist = InitHist
    /\ dp = << >>

\* _init_chunks: the next parameter of param_order is looked at
RegisterTensor ==
    /\ bld.pc = "register" /\ bld.pos <= Len(bld.order)
    /\ bld' = init_chunks_register(bld, mod)
    /\ UNCHANGED <<trainVars, mod, st, io, dp>>

\* _init_chunks: the loop is over, close_all_groups
CloseAllGroups ==
    /\ bld.pc = "register" /\ bld.pos > Len(bld.order)
    /\ bld' = init_chunks_close(bld)
    /\ UNCHANGED <<trainVars, mod, st, io, dp>>

\* _init_chunks: the next (p, fp32_p) pair is paired
InitPair ==
    /\ bld.pc = "pair" /\ bld.pairpos <= Len(bld.fp16_params)
    /\ bld' = init_chunks_pair(bld, mod)
    /\ UNCHANGED <<trainVars, mod, st, io, dp>>

\* __init__ runs to its end
FinishInit ==
    /\ bld.pc = "pair" /\ bld.pairpos > Len(bld.fp16_params)
    /\ bld' = init_names(bld, mod)
    /\ st' = FreshStore(mod, bld', 0)
    /\ UNCHANGED <<trainVars, mod, io, dp>>

SaveRunning == \E w \in Ranks(mod) : io.save[w].pc \in {"chunk", "waiting"}

\* worker w calls state_dict(only_rank_0); a run makes its saves before its loads
SaveBegin(w, only_rank_0) ==
    /\ bld.pc = "ready"
    /\ io.loads = 0
    /\ io.save[w].pc \in {"idle", "raised"}
    /\ io' = [io EXCEPT !.save[w] = [pc |-> "chunk", k |-> 1, only_rank_0 |-> only_rank_0,
                                     data |-> EmptyMap]]
    /\ UNCHANGED <<trainVars, mod, bld, st, dp>>

\* worker w records the tensors of a gathered chunk: no collective is needed
SaveLocalChunk(w) ==
    /\ io.save[w].pc = "chunk" /\ io.save[w].k <= Len(bld.g32)
    /\ bld.g32[io.save[w].k].keep_gathered
    /\ io' = [io EXCEPT !.save[w].data =
                            @ @@ save_chunk(st, mod, bld, io.save[w].k, w, io.save[w].only_rank_0),
                        !.save[w].k = @ + 1]
    /\ UNCHANGED <<trainVars, mod, bld, st, dp>>

\* worker w enters the all-gather of a sharded chunk
SaveEnterGather(w) ==
    /\ io.save[w].pc = "chunk" /\ io.save[w].k <= Len(bld.g32)
    /\ ~bld.g32[io.save[w].k].keep_gathered
    /\ io' = [io EXCEPT !.save[w].pc = "waiting"]
    /\ UNCHANGED <<trainVars, mod, bld, st, dp>>

\* every worker of the group is in the all-gather of the same chunk: it completes,
\* and each worker records the chunk's tensors
SaveAllGather ==
    /\ \E k \in 1 .. Len(bld.g32) :
           /\ \A w \in Ranks(mod) : io.save[w].pc = "waiting" /\ io.save[w].k = k
           /\ io' = [io EXCEPT !.save = [w \in Ranks(mod) |->
                         [io.save[w] EXCEPT
                             !.pc = "chunk", !.k = k + 1,
                             !.data = @ @@ save_chunk(st, mod, bld, k, w,
                                                      io.save[w].only_rank_0)]]]
    /\ UNCHANGED <<trainVars, mod, bld, st, dp>>

\* worker w has walked the chunk list: _save_to_state_dict builds the destination
\* and state_dict returns it, or fails on a parameter without recorded copy
SaveEnd(w) ==
    /\ io.save[w].pc = "chunk" /\ io.save[w].k > Len(bld.g32)
    /\ io' = IF save_key_error(bld) THEN [io EXCEPT !.save[w] = [SaveIdle EXCEPT !.pc = "raised"]]
             ELSE [io EXCEPT
                      !.save[w] = SaveIdle,
                      !.saved[w] = [valid |-> TRUE,
                                    map |-> _save_to_state_dict(st, mod, bld, io.save[w].data),
                                    snap |-> [n \in SeqSet(bld.fp32_params) |->
                                                 Logical32(st, mod, bld, n)]]]
    /\ UNCHANGED <<trainVars, mod, bld, st, dp>>

\* the chunks are re-initialised with fresh values (two sets of values alternate)
Reinit ==
    /\ bld.pc = "ready" /\ ~SaveRunning
    /\ io.loads = 0
    /\ st' = FreshStore(mod, bld, 1 - io.gen)
    /\ io' = [io EXCEPT !.gen = 1 - @]
    /\ UNCHANGED <<trainVars, mod, bld, dp>>

\* every worker calls load_state_dict(state_dict, strict)
Load(lk, strict) ==
    /\ bld.pc = "ready" /\ ~SaveRunning
    /\ io.loads < MaxLoads
    /\ FromSaved(lk) => io.saved[1].valid
    /\ lk.kind = "own" => \A w \in Ranks(mod) : io.saved[w].valid
    /\ \A w \in Ranks(mod) : ~load_index_error(mod, bld, LoadInput(lk, w))
    /\ LET res == [w \in Ranks(mod) |->
                      load_state_dict(st, mod, bld, LoadInput(lk, w), strict, w)]
       IN  /\ st' = [data32 |-> [w \in Ranks(mod) |-> res[w].r.data32],
                     data16 |-> [w \in Ranks(mod) |-> res[w].r.data16],
                     ign |-> res[1].r.ign,
                     buf |-> res[1].r.buf,
                     is_gathered |-> st.is_gathered,
                     device |-> st.device]
           /\ io' = [io EXCEPT
                        !.loads = @ + 1,
                        !.load = [kind |-> lk.kind, key |-> lk.key, strict |-> strict,
                                  inp |-> [w \in Ranks(mod) |-> LoadInput(lk, w)],
                                  res |-> [w \in Ranks(mod) |->
                                              [missing_keys |-> res[w].r.missing_keys,
                                               unexpected_keys |-> res[w].r.unexpected_keys,
                                               error_msgs |-> res[w].error_msgs,
                                               raised |-> res[w].raised]]]]
    /\ UNCHANGED <<trainVars, mod, bld, dp>>

NextIO ==
    \/ RegisterTensor
    \/ CloseAllGroups
    \/ InitPair
    \/ FinishInit
    \/ \E w \in Ranks(mod) : \E only_rank_0 \in BOOLEAN : SaveBegin(w, only_rank_0)
    \/ \E w \in Ranks(mod) : SaveLocalChunk(w)
    \/ \E w \in Ranks(mod) : SaveEnterGather(w)
    \/ SaveAllGather
    \/ \E w \in Ranks(mod) : SaveEnd(w)
    \/ Reinit
    \/ \E lk \in LoadKinds : \E strict \in BOOLEAN : Load(lk, strict)

SpecIO == InitIOSpec /\ [][NextIO]_vars

\* ------------------------------------------------------------------ workers in backward
\* The backward pass of one step, every worker of the group running its own: the
\* engine of worker w fires the gradient hooks in an order of its own, a reduction
\* is a collective that completes when every worker of the group has entered it for
\* the chunk, and _post_backward runs on a worker when its engine's backward has
\* returned.  Every worker supplies the same gradient, so each worker's object is
\* followed with the chunk contents of such a step.

\* the object when backward(loss) has run _pre_backward after a training forward
BackwardEntry ==
    _pre_backward(forward_end(forward_begin(InitSelf, TRUE).self, TRUE).self).self

\* the gradient every worker supplies for every parameter
UnitGrad == [w \in Workers |-> Scale]

\* which worker diverges: none, or worker w, whose engine never delivers the
\* gradient of the parameters skip (the parameter took no part in its loss)
Diverge ==
    {[w |-> 0, skip |-> {}]} \cup {[w |-> w, skip |-> {p}] : w \in Workers, p \in Params}

\* a worker inside backward: where it is (bwd: the engine runs; reduce: inside the
\* collective of chunk `chunk`, entered from grad_handle of p; done / raised:
\* _post_backward returned / a handler raised), its object, the parameters whose
\* hook has yet to fire, the exception raised
WorkerInit(pending) ==
    [pc |-> "bwd", self |-> BackwardEntry, pending |-> pending, chunk |-> 0, p |-> "",
     exc |-> NoErr]

InitAsync ==
    /\ cfg \in Layouts
    /\ self = InitSelf
    /\ pc = "idle"
    /\ grad_flag = TRUE
    /\ err = NoErr
    /\ last = NoCall
    /\ hist = InitHist
    /\ mod = NoModule
    /\ bld = InitBld(NoModule)
    /\ st = FreshStore(NoModule, bld, 0)
    /\ io = InitIO(NoModule)
    /\ \E d \in Diverge :
           dp = [w \in Workers |-> WorkerInit(IF w = d.w THEN Params \ d.skip ELSE Params)]

\* grad_handle(p, grad) on worker w, up to reduce_chunk: when the chunk cannot be
\* reduced yet the handler runs to its end; when it can, the worker enters the
\* collective of Chunk.reduce
WorkerGradHandle(w, p) ==
    /\ dp[w].pc = "bwd" /\ p \in dp[w].pending
    /\ LET s == dp[w].self
           r0 == post_backward(s.cm, << p >>, s.phase)
           s0 == [s EXCEPT !.cm = r0.cm]
           landed == copy_tensor_to_chunk_slice(
                         trans_tensor_state(s0.cm, p, "READY_FOR_REDUCE"), p, UnitGrad)
       IN  dp' = [dp EXCEPT ![w] =
               IF r0.bad # {} \/ unsupported_path(s0, p)
               THEN [@ EXCEPT !.pc = "raised", !.self = grad_handle(s, p, UnitGrad).self,
                              !.exc = grad_handle(s, p, UnitGrad).exc]
               ELSE IF can_reduce(landed, get_chunk(p))
               THEN [@ EXCEPT !.pc = "reduce", !.chunk = get_chunk(p), !.p = p,
                              !.self = [s0 EXCEPT !.cm = landed],
                              !.pending = @ \ {p}]
               ELSE [@ EXCEPT !.self = grad_handle(s, p, UnitGrad).self,
                              !.pending = @ \ {p}]]
    /\ UNCHANGED <<trainVars, ioVars>>

\* every worker of the group is inside the collective of chunk c: it completes, and
\* each worker's grad_handle runs to its end (lines 245-256)
WorkerReduce(c) ==
    /\ \A w \in Workers : dp[w].pc = "reduce" /\ dp[w].chunk = c
    /\ dp' = [w \in Workers |->
                 [dp[w] EXCEPT !.pc = "bwd", !.chunk = 0, !.p = "",
                               !.self = after_reduce(dp[w].self,
                                                     reduce_chunk(dp[w].self.cm, c),
                                                     dp[w].p)]]
    /\ UNCHANGED <<trainVars, ioVars>>

\* the engine's backward returned on worker w: _post_backward
WorkerPostBackward(w) ==
    /\ dp[w].pc = "bwd" /\ dp[w].pending = {}
    /\ LET r == _post_backward(dp[w].self)
       IN  dp' = [dp EXCEPT ![w].pc = IF r.exc = NoErr THEN "done" ELSE "raised",
                            ![w].self = r.self,
                            ![w].exc = r.exc]
    /\ UNCHANGED <<trainVars, ioVars>>

NextAsync ==
    \/ \E w \in Workers : \E p \in Params : WorkerGradHandle(w, p)
    \/ \E c \in Chunks : WorkerReduce(c)
    \/ \E w \in Workers : WorkerPostBackward(w)

SpecAsync == InitAsync /\ [][NextAsync]_vars

\* ------------------------------------------------------------------ shorthands
cm == self.cm
accessed_mem == cm.accessed_mem
accessed_chunks == cm.accessed_chunks

TypeOK ==
    /\ cfg \in Layouts
    /\ pc \in {"idle", "fwd", "fwd_done", "bwd", "error"}
    /\ grad_flag \in BOOLEAN
    /\ cm.tstate \in [Params -> TensorStates]
    /\ cm.is_gathered \in [Chunks -> BOOLEAN]
    /\ cm.device \in [Chunks -> Devices]
    /\ accessed_chunks \subseteq Chunks
    /\ accessed_mem \in Nat
    /\ self.phase \in {"forward", "backward"}
    /\ self.overflow_counter \in Nat
    /\ self.grads_device \in [Params -> Devices]
    /\ (err = NoErr) = (pc # "error")

\* ------------------------------------------------------------------ C1
\* the step is over: _post_backward returned without raising
StepDone == pc = "idle" /\ last.op = "_post_backward"
\* backward is running and grad_handle has completed for every registered parameter
AllHandled == pc = "bwd" /\ hist.handled = Params

\* C1: once grad_handle has run for every registered compute-precision parameter of
\* a step, and after _post_backward has returned without raising, the accessed-memory
\* counter is zero and the accessed-chunk set is empty
C1_AccessedZeroAfterStep ==
    (StepDone \/ AllHandled) => (accessed_mem = 0 /\ accessed_chunks = {})

\* a full step has completed on a model with several chunks, one of them kept gathered
C1_Witness ==
    /\ StepDone
    /\ hist.handled = Params
    /\ \E c \in Chunks : Keep(c)
    /\ \A c \in Chunks : hist.reduce_count[c] = 1

\* ------------------------------------------------------------------ C2
\* what a grad_handle step must satisfy, p being the parameter it was called for
C2_Action ==
    (pc = "bwd" /\ last'.op = "grad_handle") =>
        LET p == last'.p
            c == get_chunk(p)
            othersReady == \A q \in ChunkTensors(c) \ {p} : cm.tstate[q] = "READY_FOR_REDUCE"
        IN  /\ last'.reduced =>
                /\ hist.reduce_count[c] = 0
                /\ othersReady
                /\ err' = NoErr
                /\ \A q \in ChunkTensors(c) : q \in hist'.handled
            /\ ~othersReady =>
                /\ ~last'.reduced
                /\ self'.overflow_counter = self.overflow_counter
                /\ self'.cm.device = cm.device
                /\ self'.cm.is_gathered = cm.is_gathered
                /\ self'.cm.accessed_chunks = accessed_chunks
                /\ \A w \in Workers : \A i \in 1 .. Cap(c) :
                       \/ self'.cm.data[w][c][i] = cm.data[w][c][i]
                       \/ i \in Slice(p) /\ err' = NoErr
                                         /\ self'.cm.data[w][c][i] = hist'.grads_in[p][w]

\* C2: within one step reduce_chunk returns true at most once per chunk, and only
\* when every other member tensor is READY_FOR_REDUCE and the arriving one completes
\* the set; a grad_handle call that arrives while another member is not yet
\* READY_FOR_REDUCE gets false: nothing is divided (the chunk holds what it held, plus
\* the raw gradient in the slice of p), the overflow counter and the chunk's
\* residency and gathered flag are unchanged
C2_ReduceOncePerStep ==
    /\ [][C2_Action]_vars
    /\ [](\A c \in Chunks : hist.reduce_count[c] <= 1)

\* a two-tensor chunk: the first gradient arrived and got false, the second one reduced
C2_Witness ==
    /\ pc = "bwd"
    /\ last.op = "grad_handle" /\ last.p = "B" /\ last.reduced
    /\ hist.handled = {"A", "B"}
    /\ hist.reduce_count[get_chunk("B")] = 1
    /\ get_chunk("A") = get_chunk("B")

\* ------------------------------------------------------------------ C3
\* the chunk is gathered, on the fast device, and every worker holds all of it
Resident(c) ==
    /\ cm.is_gathered[c]
    /\ cm.device[c] = "cuda"
    /\ \A w \in Workers : \A i \in 1 .. Cap(c) : cm.data[w][c][i] # Absent

\* the tensors the engine may touch now: all of them while the wrapped module's
\* forward runs, those whose gradient is not yet complete while backward runs
Touchable ==
    IF pc = "fwd" THEN Params
    ELSE IF pc = "bwd" THEN Params \ hist.handled
    ELSE {}

\* C3: whenever the engine can touch a registered compute-precision tensor, in a
\* training or inference forward or in a backward, the tensor's chunk is gathered
\* and on the fast device
C3_TouchedChunkResident == \A p \in Touchable : Resident(get_chunk(p))

\* backward under the host-memory policy: one chunk is already reduced and moved
\* back to the host, another tensor is still to be touched
C3_Witness ==
    /\ pc = "bwd"
    /\ cfg.policy = "cpu"
    /\ \E c \in Chunks : hist.reduce_count[c] = 1 /\ cm.device[c] = "cpu"
    /\ Touchable # {}

\* ------------------------------------------------------------------ C4
\* the chunks that may be sharded and are gathered now
GatheredChunks == {c \in Chunks : ~Keep(c) /\ cm.is_gathered[c]}

\* C4 (as claimed): the number of simultaneously gathered non-keep_gathered chunks
\* stays within a small constant (the chunk in use and a prefetched one) however
\* many chunks the model has
C4_WorkingSetBounded == Cardinality(GatheredChunks) <= 2

C6_NothingDone(p) ==
    /\ pc' = "error"
    /\ err' = Err("unsupported", {p})
    /\ self'.cm.tstate[p] # "READY_FOR_REDUCE"
    /\ self'.cm.data = cm.data
    /\ hist' = hist
    /\ ~last'.reduced
    /\ self'.overflow_counter = self.overflow_counter
    /\ self'.cm.device = cm.device
    /\ self'.cm.is_gathered = cm.is_gathered
    /\ self'.cm.accessed_chunks = accessed_chunks

\* C6 (as claimed): a grad_handle that fires for a tensor whose state is not
\* HOLD_AFTER_BWD raises the error naming the tensor and does nothing else
C6_RaisesWhenNotHoldAfterBwd ==
    [][(pc = "bwd" /\ last'.op = "grad_handle"
           /\ cm.tstate[last'.p] # "HOLD_AFTER_BWD") => C6_NothingDone(last'.p)]_vars

\* C6 (amended): grad_handle first notifies the hook (post_backward); when that
\* succeeds and the state it leaves the tensor in is not HOLD_AFTER_BWD, grad_handle
\* raises the error naming the tensor and does nothing else
C6_RaisesWhenHookLeavesOtherState ==
    [][(pc = "bwd" /\ last'.op = "grad_handle"
           /\ LET r0 == post_backward(cm, <<last'.p>>, self.phase)
              IN  r0.bad = {} /\ r0.cm.tstate[last'.p] # "HOLD_AFTER_BWD")
       => C6_NothingDone(last'.p)]_vars

\* the unsupported-path error was raised for a tensor
C6_Witness ==
    /\ pc = "error"
    /\ last.op = "grad_handle"
    /\ err = Err("unsupported", {last.p})

\* ------------------------------------------------------------------ C7
\* the tensors whose chunk was not reduced in the running step
Unreduced == {p \in Params : hist.reduce_count[get_chunk(p)] = 0}

\* C7 (as claimed): when _post_backward fails, the error is the reduction error, it
\* names exactly the tracked tensors that were not reduced in the step, the engine
\* gradients are still set and post_iter has not run
C7_ErrorNamesUnreduced ==
    (pc = "error" /\ last.op = "_post_backward") =>
        /\ err.kind = "reduction"
        /\ err.names = Unreduced
        /\ hist.handled \subseteq self.has_grad
        /\ self.hm.recorded

\* ------------------------------------------------------------------ C8
\* forward returned in inference mode
InferenceDone == pc = "idle" /\ last.op = "forward_end"

\* what the inference cleanup leaves behind, but for where the chunks are
C8_Cleaned ==
    /\ accessed_chunks = {}
    /\ accessed_mem = 0
    /\ ~self.hm.recorded
    /\ \A c \in Chunks : cm.is_gathered[c] = Keep(c)
    /\ \A c \in Chunks : \A w \in Workers : \A i \in 1 .. Cap(c) :
           (cm.data[w][c][i] = Absent) = (~Keep(c) /\ Owner(c, i) # w)

\* C8 (as claimed, and as the comment of line 155 says): after an inference forward
\* every chunk is released (a keep_gathered one only in the books), is back on its
\* origin device (the one it was placed on at construction), the counter is zero
\* and the manager is reset
C8_InferenceRestoresOrigin ==
    InferenceDone => (C8_Cleaned /\ \A c \in Chunks : cm.device[c] = InitSelf.cm.device[c])

\* what the cleanup does establish: every chunk ends on the gradient device
\* configured now for its first tensor (grads_device[first_param], line 163)
InferenceMovesToGradDevice ==
    InferenceDone =>
        (C8_Cleaned /\ \A c \in Chunks : cm.device[c] = self.grads_device[first_param(c)])

\* ------------------------------------------------------------------ C9
\* two workers, one chunk of capacity 10 holding A (4 elements) and B (6 elements)
C9_Scenario ==
    /\ cfg.pg_size = 2
    /\ cfg.chunks = << Ch(10, FALSE, << T("A", 4), T("B", 6) >>) >>

\* grad_handle has run for A with all-ones and for B with all-twos on each worker
C9_BothHandled ==
    /\ C9_Scenario
    /\ pc = "bwd"
    /\ hist.handled = {"A", "B"}
    /\ hist.grads_in["A"] = [w \in Workers |-> 1 * Scale]
    /\ hist.grads_in["B"] = [w \in Workers |-> 2 * Scale]

\* C9: in that scenario the reduction has fired exactly once, the chunk holds 0.5 on
\* the slice of A and 1 on the slice of B, and the overflow counter is what it was
\* when the backward started
C9_ScenarioValues ==
    C9_BothHandled =>
        /\ hist.reduce_count[1] = 1
        /\ \A w \in Workers :
               Logical(cm, 1, w) = [i \in 1 .. 10 |-> IF i <= 4 THEN Scale \div 2 ELSE Scale]
        /\ self.overflow_counter = hist.overflow0
        /\ ~cm.has_inf_or_nan[1]

\* the scenario has run on a fresh model: the overflow counter is still 0
C9_Witness == C9_BothHandled /\ self.overflow_counter = 0 /\ hist.overflow0 = 0

\* ------------------------------------------------------------------ C10
\* the sum over the workers of the gradients landed for p
GradSum(p) == SumWorkers([w \in Workers |-> <<[i \in {1} |-> hist.grads_in[p][w]]>>],
                         1, 1, cfg.pg_size)

\* C10 (as claimed): once a chunk's reduction has fired in grad_handle, every
\* element of every member tensor equals the sum over the workers of the gradients
\* landed for it, divided by the group size once
C10_SingleDivision ==
    (pc = "bwd" /\ last.op = "grad_handle" /\ last.reduced) =>
        \A p \in ChunkTensors(get_chunk(last.p)) : \A i \in Slice(p) : \A w \in Workers :
            Logical(cm, get_chunk(p), w)[i] = Div(GradSum(p), cfg.pg_size)

\* ------------------------------------------------------------------ C11
\* C11 (as claimed): the tensor grad_handle hands back to the engine has as many
\* elements as the gradient and every element is 0, whether or not a reduction fired
C11_PlaceholderZero ==
    (pc = "bwd" /\ last.op = "grad_handle") =>
        /\ last.ret.numel = Cardinality(Slice(last.p))
        /\ last.ret.fill = 0

\* ------------------------------------------------------------------ C12
\* the chunks of a group partition the registered tensors: every registered tensor
\* is in exactly one chunk, once, and the chunks hold nothing else
Partition(group, registered) ==
    /\ \A n \in registered : Cardinality(GOwners(group, n)) = 1
    /\ \A c \in 1 .. Len(group) :
           \A i, j \in 1 .. Len(group[c].tensors) :
               group[c].tensors[i].name = group[c].tensors[j].name => i = j
    /\ UNION {GNames(group[c]) : c \in 1 .. Len(group)} = registered

C12_Membership ==
    /\ Partition(bld.g16, SeqSet(bld.fp16_params))
    /\ Partition(bld.g32, SeqSet(bld.fp32_params))

\* C12: during construction and in every state reached by save and load, every
\* registered compute-precision parameter and every master copy has exactly one
\* owning chunk, the chunks' tensor sets are disjoint and cover the registered
\* tensors; once close_all_groups has run no chunk's membership changes
C12_OneOwningChunk ==
    /\ [](C12_Membership)
    /\ [][bld.closed => (bld'.closed /\ bld'.g16 = bld.g16 /\ bld'.g32 = bld.g32
                         /\ bld'.fp16_params = bld.fp16_params
                         /\ bld'.fp32_params = bld.fp32_params)]_vars

\* a module with an ignored parameter and several chunks was built, saved and loaded
C12_Witness ==
    /\ bld.pc = "ready"
    /\ bld.ignored # {}
    /\ Len(bld.g32) >= 2
    /\ io.loads > 0

\* ------------------------------------------------------------------ C13
\* a sits before b in the layout of a group: in an earlier chunk, or earlier in the
\* same chunk
LayoutBefore(group, a, b) ==
    \/ GChunkOf(group, a) < GChunkOf(group, b)
    \/ GChunkOf(group, a) = GChunkOf(group, b) /\ GOffset(group, a) < GOffset(group, b)

\* the order the claim speaks of: the supplied trace, else the declaration order
VisitOrder == IF mod.premade THEN mod.trace ELSE DeclNames(mod)

\* C13: once the groups are closed, the tensors registered are those of the
\* visitation order that take a gradient, and they lie in the chunks in that order
\* (the supplied trace when there is one, else the declaration order)
C13_PackingFollowsOrder ==
    bld.closed =>
        /\ SeqSet(bld.fp16_params) =
               {n \in SeqSet(VisitOrder) : DeclOf(mod, n).requires_grad}
        /\ \A i, j \in 1 .. Len(VisitOrder) :
               (i < j /\ {VisitOrder[i], VisitOrder[j]} \subseteq SeqSet(bld.fp16_params)) =>
                   /\ LayoutBefore(bld.g16, VisitOrder[i], VisitOrder[j])
                   /\ LayoutBefore(bld.g32, VisitOrder[i], VisitOrder[j])

\* the supplied order [B, A] against the declaration order [A, B]: B lies before A
C13_Witness ==
    /\ bld.closed
    /\ mod.premade /\ mod.trace = << "B", "A" >>
    /\ DeclNames(mod) = << "A", "B" >>
    /\ LayoutBefore(bld.g16, "B", "A")

\* ------------------------------------------------------------------ C14
\* every master chunk is paired with the compute chunk that holds the same
\* parameters at the same slices, one to one
PairsOK ==
    /\ \A c \in 1 .. Len(bld.g32) :
           /\ bld.paired_chunk[c] \in 1 .. Len(bld.g16)
           /\ bld.g16[bld.paired_chunk[c]].tensors = bld.g32[c].tensors
    /\ \A c, d \in 1 .. Len(bld.g32) : bld.paired_chunk[c] = bld.paired_chunk[d] => c = d
    /\ \A c16 \in 1 .. Len(bld.g16) : \E c \in 1 .. Len(bld.g32) : bld.paired_chunk[c] = c16
    /\ \A i \in 1 .. Len(bld.fp16_params) :
           /\ bld.paired_chunk[GChunkOf(bld.g32, bld.fp32_params[i])]
                  = GChunkOf(bld.g16, bld.fp16_params[i])
           /\ GSlice(bld.g32, bld.fp32_params[i]) = GSlice(bld.g16, bld.fp16_params[i])

\* C14: no chunk is paired before close_all_groups; when construction is over the
\* pairing is one to one and matches the parameters slice by slice; a pair, once
\* set, is never changed, by the rest of construction, by save or by load
C14_PairingOnceAndFixed ==
    /\ []((bld.pc = "ready" => PairsOK) /\ (bld.paired_chunk # << >> => bld.closed))
    /\ [][\A c \in DOMAIN bld.paired_chunk :
              bld.paired_chunk[c] # 0 =>
                  (c \in DOMAIN bld'.paired_chunk /\ bld'.paired_chunk[c] = bld.paired_chunk[c])]_vars

\* a module with two chunk pairs was built and then loaded
C14_Witness ==
    /\ bld.pc = "ready"
    /\ Len(bld.g32) >= 2
    /\ \E c \in 1 .. Len(bld.g32) : Len(bld.g32[c].tensors) >= 2
    /\ io.loads > 0

\* ------------------------------------------------------------------ C15
\* the keys load() is called for: ignored parameters, registered tensors, buffers
Loadable == SeqSet(load_calls(mod, bld))

\* what worker w holds of the live tensor behind key k in storage s (Absent where
\* an element lies outside its shard)
LiveValue(s, w, k) ==
    IF k \in mod.buffers THEN s.buf[k]
    ELSE IF k \in bld.ignored THEN s.ign[k]
    ELSE [j \in 1 .. GSize(bld.g32, k) |->
             s.data32[w][GChunkOf(bld.g32, k)][GOffset(bld.g32, k) + j]]

\* worker w holds the values vals behind key k in storage s: the master slice takes
\* them as they are (what the worker holds of it), an ignored parameter or a
\* buffer in its own, compute, precision
HoldsInput(s, w, k, vals) ==
    IF k \in mod.buffers \/ k \in bld.ignored
    THEN LiveValue(s, w, k) = [j \in 1 .. Len(vals) |-> half(vals[j])]
    ELSE /\ GSize(bld.g32, k) = Len(vals)
         /\ \A j \in 1 .. Len(vals) :
                LiveValue(s, w, k)[j] =
                    IF Held(mod, bld.g32[GChunkOf(bld.g32, k)], w, GOffset(bld.g32, k) + j)
                    THEN vals[j] ELSE Absent

\* the messages of kind "size" that name key k
SizeMsgs(msgs, k) == {i \in 1 .. Len(msgs) : msgs[i] = Msg("size", << k >>)}

\* the stored tensor as load() compares it: a one-dimensional stored tensor for a
\* zero-dimensional live one stands for its first element
Compared(e, k) ==
    IF Len(dest_shape(mod, k)) = 0 /\ Len(e.shape) = 1
    THEN Entry(<< >>, << e.vals[1] >>, e.dev)
    ELSE e

\* the stored tensor e disagrees in shape with the live tensor behind k: as it is
\* stored, or as load() compares it
ShapeDiffers(e, k) == e.shape # dest_shape(mod, k)
ComparedShapeDiffers(e, k) == Compared(e, k).shape # dest_shape(mod, k)

\* what the claim asks of one load_state_dict call on worker w, the shapes compared
\* as stored (asStored) or as load() compares them
LoadHandlesMismatch(w, asStored) ==
    LET inp == io'.load.inp[w]
        res == io'.load.res[w]
        bad == {k \in Loadable \cap DOMAIN inp :
                   IF asStored THEN ShapeDiffers(inp[k], k) ELSE ComparedShapeDiffers(inp[k], k)}
    IN  /\ \A k \in bad :
               /\ Cardinality(SizeMsgs(res.error_msgs, k)) = 1
               /\ LiveValue(st', w, k) = LiveValue(st, w, k)
        /\ \A k \in (Loadable \cap DOMAIN inp) \ bad :
               /\ SizeMsgs(res.error_msgs, k) = {}
               /\ HoldsInput(st', w, k, Compared(inp[k], k).vals)
        /\ bad # {} => res.raised
        /\ Cardinality({i \in 1 .. Len(res.error_msgs) : res.error_msgs[i].kind = "size"})
               = Cardinality(bad)

AggregatedKeys(res) ==
    /\ res.missing_keys # << >> =>
           Cardinality({i \in 1 .. Len(res.error_msgs) :
                           res.error_msgs[i] = Msg("missing", res.missing_keys)}) = 1
    /\ res.unexpected_keys # << >> =>
           Cardinality({i \in 1 .. Len(res.error_msgs) :
                           res.error_msgs[i] = Msg("unexpected", res.unexpected_keys)}) = 1
    /\ Cardinality({i \in 1 .. Len(res.error_msgs) :
                       res.error_msgs[i].kind \in {"missing", "unexpected"}})
           = (IF res.missing_keys # << >> THEN 1 ELSE 0)
             + (IF res.unexpected_keys # << >> THEN 1 ELSE 0)

KeyListsNonEmpty(res) == res.missing_keys # << >> \/ res.unexpected_keys # << >>

\* the input of worker w holds a tensor whose shape, as load() compares it, is not
\* the live tensor's
HasShapeMismatch(w) ==
    \E k \in Loadable \cap DOMAIN io.load.inp[w] : ComparedShapeDiffers(io.load.inp[w][k], k)

\* C16 (as claimed): a load_state_dict call raises exactly when strict is on and
\* one of the two key lists is not empty; a call with strict off never raises
C16_RaisesOnlyStrictKeys ==
    io.loads > 0 =>
        \A w \in Ranks(mod) :
            io.load.res[w].raised <=> (io.load.strict /\ KeyListsNonEmpty(io.load.res[w]))

\* C16 (amended): a load_state_dict call raises exactly when strict is on and one
\* of the two key lists is not empty, or, whatever strict is, when a stored tensor
\* mismatches the live one in shape; a strict raise for the keys carries one
\* message per non-empty list, naming all its keys; a call that does not raise
\* returns the two lists
C16_RaisesOnStrictKeysOrMismatch ==
    io.loads > 0 =>
        \A w \in Ranks(mod) :
            LET res == io.load.res[w]
            IN  /\ res.raised <=> \/ io.load.strict /\ KeyListsNonEmpty(res)
                                  \/ HasShapeMismatch(w)
                /\ io.load.strict => AggregatedKeys(res)
                /\ ~io.load.strict =>
                       \A i \in 1 .. Len(res.error_msgs) : res.error_msgs[i].kind = "size"
                /\ ~res.raised => res.error_msgs = << >>

\* a strict load of a mapping with a key dropped raised with the one message for it,
\* and so on every worker
C16_Witness ==
    /\ io.loads > 0
    /\ io.load.strict /\ io.load.kind = "drop"
    /\ \A w \in Ranks(mod) :
           /\ io.load.res[w].raised
           /\ io.load.res[w].missing_keys = << io.load.key >>
           /\ io.load.res[w].error_msgs = << Msg("missing", << io.load.key >>) >>

\* ------------------------------------------------------------------ C17
NoRepeat(q) == \A i, j \in 1 .. Len(q) : q[i] = q[j] => i = j

\* the two lists of a call on worker w are exact: the keys of the model (parameters,
\* persistent buffers) absent from the input, the keys of the input absent from the
\* model, each once
ListsExact(w) ==
    LET inp == io.load.inp[w]
        res == io.load.res[w]
        model_keys == SeqSet(DeclNames(mod)) \cup mod.buffers
    IN  /\ SeqSet(res.missing_keys) = model_keys \ DOMAIN inp
        /\ SeqSet(res.unexpected_keys) = DOMAIN inp \ model_keys
        /\ NoRepeat(res.missing_keys) /\ NoRepeat(res.unexpected_keys)

\* C17 (as claimed): after every load_state_dict call, on every worker, the two
\* lists are exact, and they are empty when the mapping came from state_dict on
\* this model
C17_KeyListsExact ==
    io.loads > 0 =>
        \A w \in Ranks(mod) :
            /\ ListsExact(w)
            /\ io.load.kind \in {"own", "rank0"} =>
                   io.load.res[w].missing_keys = << >> /\ io.load.res[w].unexpected_keys = << >>

\* every declared parameter is registered in a chunk or ignored
AllManaged == SeqSet(DeclNames(mod)) = SeqSet(bld.fp16_params) \cup bld.ignored

\* the lists are exact for a model all of whose parameters are managed
ListsExactWhenManaged ==
    (io.loads > 0 /\ AllManaged) => \A w \in Ranks(mod) : ListsExact(w)

\* ------------------------------------------------------------------ C18
\* the mapping worker w loaded came from the state_dict call that took snapshot
\* SnapOf(w) of the master tensors
SnapOf(w) == IF io.load.kind = "own" THEN io.saved[w].snap ELSE io.saved[1].snap

\* worker w holds, after the load, the saved value of every registered tensor: in
\* the master chunk as saved, in the compute chunk in compute precision
Reproduced(w) ==
    \A n \in SeqSet(bld.fp32_params) :
        /\ HoldsInput(st, w, n, SnapOf(w)[n])
        /\ \A j \in 1 .. GSize(bld.g16, n) :
               LET c16 == GChunkOf(bld.g16, n)
                   i == GOffset(bld.g16, n) + j
               IN  st.data16[w][c16][i] =
                       IF Held(mod, bld.g16[c16], w, i) THEN half(SnapOf(w)[n][j]) ELSE Absent

\* a mapping holds the full value of every registered tensor (not the empty
\* placeholder state_dict leaves on the workers that do not record)
Complete(map) ==
    \A n \in SeqSet(bld.fp32_params) : n \in DOMAIN map /\ map[n].shape = dest_shape(mod, n)

SoleCaller(w) == \A v \in Ranks(mod) \ {w} : io.save[v].pc \in {"idle", "raised"}

\* the mapping holds, for every parameter and persistent buffer of the model, the
\* full tensor, on the host
FullHostMapping(map) ==
    \A k \in SeqSet(DeclNames(mod)) \cup mod.buffers :
        /\ k \in DOMAIN map
        /\ map[k].shape = dest_shape(mod, k)
        /\ Len(map[k].vals) = numel(dest_shape(mod, k))
        /\ map[k].dev = "cpu"

\* C19 (as claimed): rank 0, calling state_dict while no other worker of the group
\* is inside it, never waits in a gather for the others, and what state_dict
\* returns on rank 0 holds the full, host-resident tensor for every name
C19_SafeFromOneWorker ==
    /\ SoleCaller(1) => io.save[1].pc # "waiting"
    /\ io.saved[1].valid => FullHostMapping(io.saved[1].map)

\* rank 0 alone waits in the all-gather of a sharded chunk
SoleCallerWaits == SoleCaller(1) /\ io.save[1].pc = "waiting"
\* state_dict returned a tensor that lives on the fast device
SavedOnDevice == io.saved[1].valid /\ \E k \in DOMAIN io.saved[1].map : io.saved[1].map[k].dev = "cuda"

\* ------------------------------------------------------------------ C20
\* two workers are inside collectives of different chunks
OrderMismatch ==
    \E w, v \in Workers :
        dp[w].pc = "reduce" /\ dp[v].pc = "reduce" /\ dp[w].chunk # dp[v].chunk

\* worker w is inside a collective that worker v, whose step is over, never enters
BlockedBeside(w, v) == dp[w].pc = "reduce" /\ dp[v].pc \in {"done", "raised"}

\* a worker whose backward ended with a chunk unreduced raised the reduction error
DivergenceDetected ==
    \A w \in Workers :
        (dp[w].pc \in {"done", "raised"} /\ dp[w].self.cm.accessed_mem # 0) =>
            dp[w].exc.kind = "reduction"

\* C20 (as claimed): under any per-worker order of the gradient hooks, the workers
\* that are inside a reduction are inside that of the same chunk, a worker whose
\* backward ends with a chunk unreduced raises the reduction error, and no worker
\* stays inside a collective that a worker whose step is over never enters
C20_ConsistentCollectives ==
    /\ ~OrderMismatch
    /\ DivergenceDetected
    /\ \A w, v \in Workers : ~BlockedBeside(w, v)

\* a worker waits in the reduction of a chunk while the diverging worker has
\* already raised the reduction error of _post_backward
BlockedBesideRaised ==
    \E w, v \in Workers :
        BlockedBeside(w, v) /\ dp[v].exc.kind = "reduction" /\ dp[w].pending = {}

\* every worker delivered every gradient and finished the step
AllWorkersDone ==
    /\ Cardinality(DOMAIN dp) >= 2
    /\ \A w \in DOMAIN dp : dp[w].pc = "done" /\ dp[w].self.cm.accessed_mem = 0

\* ------------------------------------------------------------------ C21
\* all member tensors of a chunk have the same gradient-destination device
UniformGradDevice ==
    \A c \in Chunks : \A p, q \in ChunkTensors(c) : self.grads_device[p] = self.grads_device[q]

\* C21: at every handler boundary the member tensors of a chunk share one
\* gradient-destination device; a chunk reduced in grad_handle lies on that device
\* whichever member's gradient came last, and it is the device the inference
\* cleanup moves the chunk to; after construction it is the fast device for a
\* keep_gathered chunk
C21_OneGradDevicePerChunk ==
    /\ UniformGradDevice
    /\ (pc = "bwd" /\ last.op = "grad_handle" /\ last.reduced) =>
           \A p \in ChunkTensors(get_chunk(last.p)) :
               cm.device[get_chunk(last.p)] = self.grads_device[p]
    /\ InferenceDone =>
           \A c \in Chunks : \A p \in ChunkTensors(c) : cm.device[c] = self.grads_device[p]
    /\ last.op = "init" =>
           \A c \in Chunks : Keep(c) => \A p \in ChunkTensors(c) : self.grads_device[p] = "cuda"

\* a chunk of two tensors was re-targeted away from the policy's device, and was
\* then reduced by the gradient of its first tensor arriving last
C21_Witness ==
    /\ pc = "bwd" /\ last.op = "grad_handle" /\ last.reduced
    /\ Cardinality(ChunkTensors(get_chunk(last.p))) >= 2
    /\ last.p = first_param(get_chunk(last.p))
    /\ self.grads_device[last.p] # default_device
    /\ cm.device[get_chunk(last.p)] = self.grads_device[last.p]

\* what _init_chunks leaves: the registered parameters of one compute chunk share
\* one gradient-destination device, the fast device when the chunk is keep_gathered
BuiltGradDevicesUniform ==
    bld.pc = "ready" =>
        \A i, j \in 1 .. Len(bld.fp16_params) :
            GChunkOf(bld.g16, bld.fp16_params[i]) = GChunkOf(bld.g16, bld.fp16_params[j]) =>
                /\ bld.grads_device[i] = bld.grads_device[j]
                /\ bld.grads_device[i] =
                       IF bld.g16[GChunkOf(bld.g16, bld.fp16_params[i])].keep_gathered
                       THEN "cuda" ELSE mod.policy

\* ------------------------------------------------------------------ C22
\* C22 (as claimed): the phase is "backward" while backward runs (from _pre_backward
\* until _post_backward) and "forward" otherwise: a forward pass runs in forward
\* phase and grad_handle in backward phase, also in the step that follows a raise
\* of _post_backward or of grad_handle
C22_PhaseBalanced ==
    /\ pc = "bwd" => self.phase = "backward"
    /\ pc \in {"idle", "fwd", "fwd_done"} => self.phase = "forward"
    /\ last.op \in {"forward_begin", "forward_end"} => self.phase = "forward"
    /\ last.op = "grad_handle" => self.phase = "backward"
    /\ last.op = "_post_backward" => self.phase = "forward"

\* a forward pass was entered in backward phase
ForwardInBackwardPhase == last.op = "forward_begin" /\ self.phase = "backward"

\* _post_backward raised the reduction error and left the forward phase behind
PostBackwardRaisedInForwardPhase ==
    pc = "error" /\ last.op = "_post_backward" /\ err.kind = "reduction"
    /\ self.phase = "forward"

\* ------------------------------------------------------------------ C23
\* the states a handler call takes tensor p through, in order: the hook's
\* pre_forward / pre_backward mark every registered tensor COMPUTE, post_forward
\* leaves it in the state of the phase, grad_handle(q) takes q through the state
\* of the phase and READY_FOR_REDUCE, and a reduction puts every member of the
\* chunk back to HOLD; call is the record of the call, phase the phase it ran in
Chain(call, phase, p) ==
    IF call.op \in {"forward_begin", "_pre_backward"} THEN << "COMPUTE" >>
    ELSE IF call.op = "forward_end" THEN << PostState(phase) >>
    ELSE IF call.op = "grad_handle" /\ get_chunk(p) = get_chunk(call.p)
    THEN (IF p = call.p THEN << PostState(phase), "READY_FOR_REDUCE" >> ELSE << >>)
         \o (IF call.reduced THEN << "HOLD" >> ELSE << >>)
    ELSE << >>

RECURSIVE LinksAllowed(_, _)
\* every link of the chain, started in state old, is a transition of the state machine
LinksAllowed(old, chain) ==
    \/ chain = << >>
    \/ <<old, Head(chain)>> \in STATE_TRANS /\ LinksAllowed(Head(chain), Tail(chain))

ChainEnd(old, chain) == IF chain = << >> THEN old ELSE chain[Len(chain)]

\* the phase a call ran in: _pre_backward toggles it before the hook is called
PhaseOf(call) == IF call.op = "_pre_backward" THEN toggle_training_phase(self.phase) ELSE self.phase

\* one handler call changed the tensor states along allowed transitions only: when
\* it returned, every tensor went through its whole chain and every link was
\* allowed; when it raised, a tensor is unchanged or went through an allowed part
\* of its chain, and a tensor the transition error names is as it was
StepAllowed ==
    \A p \in Params :
        LET chain == Chain(last', PhaseOf(last'), p)
            old == self.cm.tstate[p]
            new == self'.cm.tstate[p]
        IN  IF err' = NoErr /\ pc' # "error"
            THEN LinksAllowed(old, chain) /\ new = ChainEnd(old, chain)
            ELSE /\ \/ new = old
                    \/ \E k \in 1 .. Len(chain) :
                           LinksAllowed(old, SubSeq(chain, 1, k)) /\ new = chain[k]
                 /\ (err'.kind = "transition" /\ p \in err'.names) =>
                        (new = old /\ ~LinksAllowed(old, chain))

\* C23: every handler call changes tensor states along allowed transitions only (a
\* transition the state machine does not allow raises and is not applied), and
\* when a forward and backward step has completed every registered tensor is in
\* the state it had after construction
C23_TransitionsAllowedAndCycleCloses ==
    [][/\ StepAllowed
       /\ StepDone' => \A p \in Params : self'.cm.tstate[p] = InitSelf.cm.tstate[p]]_vars

\* a step over three chunks completed with every chunk reduced, the tensors back
\* in their first state
C23_Witness ==
    /\ StepDone
    /\ Len(cfg.chunks) >= 3
    /\ \A c \in Chunks : hist.reduce_count[c] = 1
    /\ \A p \in Params : self.cm.tstate[p] = "HOLD"

\* ------------------------------------------------------------------ C24
\* element i of master chunk c is resident on worker w: all of a gathered chunk,
\* else the worker's shard
ResidentElement(s, c, w, i) == s.is_gathered[c] \/ GOwner(mod, i) = w

\* the full content of master chunk c as worker w sees it in storage s
FullContent(s, c, w, i) ==
    IF s.is_gathered[c] THEN s.data32[w][c][i] ELSE s.data32[GOwner(mod, i)][c][i]

\* the tensors of master chunk c whose slice covers element i and whose input entry
\* matches (the key is in the input and its shape, as load() compares it, is the
\* live tensor's)
MatchingAt(inp, c, i) ==
    {n \in GNames(bld.g32[c]) :
        /\ i \in GSlice(bld.g32, n)
        /\ n \in DOMAIN inp
        /\ ~ComparedShapeDiffers(inp[n], n)}

\* what worker w is to hold at element i of master chunk c after loading inp
LoadedElement(inp, c, w, i) ==
    IF ~ResidentElement(st, c, w, i) THEN Absent
    ELSE IF MatchingAt(inp, c, i) # {}
    THEN LET n == CHOOSE n \in MatchingAt(inp, c, i) : TRUE
         IN  Compared(inp[n], n).vals[i - GOffset(bld.g32, n)]
    ELSE FullContent(st, c, w, i)

\* the compute chunk paired with master chunk c holds, on worker w, what the worker
\* holds of the master chunk, in compute precision
ComputeFollowsMaster(s, c, w) ==
    \A i \in 1 .. mod.chunk_size :
        s.data16[w][bld.paired_chunk[c]][i] =
            IF s.data32[w][c][i] = Absent THEN Absent ELSE half(s.data32[w][c][i])

\* C24: in every load_state_dict call, on every worker and for every master chunk,
\* the buffer the worker has of the chunk (all of a gathered chunk, else its shard)
\* is afterwards the chunk's full content with every matching input entry written
\* into its tensor's slice and every other element as it was; the chunk is
\* gathered, and lies on the device, as before; and the paired compute chunk holds
\* the master values the load left, in compute precision, for every chunk whatever
\* the order of the chunks
C24_LoadWritesResidentBuffer ==
    [][io'.loads > io.loads =>
           /\ st'.is_gathered = st.is_gathered
           /\ st'.device = st.device
           /\ \A w \in Ranks(mod) : \A c \in 1 .. Len(bld.g32) :
                  /\ \A i \in 1 .. mod.chunk_size :
                         st'.data32[w][c][i] = LoadedElement(io'.load.inp[w], c, w, i)
                  /\ ComputeFollowsMaster(st', c, w)]_vars

\* a hand-written mapping without key A was loaded into a sharded chunk on the slow
\* device that holds B and A: B's slice took the input, A's slice kept its values,
\* no worker holds more than its shard, and the compute chunk has the loaded
\* values in compute precision
C24_Witness ==
    /\ io.loads > 0
    /\ io.load.kind = "made_drop" /\ io.load.key = "A"
    /\ Len(bld.g32) = 1 /\ GNames(bld.g32[1]) = {"A", "B"}
    /\ ~st.is_gathered[1] /\ st.device[1] = "cpu"
    /\ \A w \in Ranks(mod) : HoldsInput(st, w, "B", << 51, 52 >>)
    /\ \A j \in 1 .. 2 :
           st.data32[GOwner(mod, GOffset(bld.g32, "A") + j)][1][GOffset(bld.g32, "A") + j]
               = InitVal(mod, "A", j, io.gen)
    /\ \A w \in Ranks(mod) : ComputeFollowsMaster(st, 1, w)
    /\ \E w \in Ranks(mod) : \E i \in 1 .. mod.chunk_size :
           st.data32[w][1][i] = 51 /\ st.data16[w][1][i] = 50

\* ------------------------------------------------------------------ C25
\* the step is a call of forward with gradients disabled while the memory manager
\* needs a warm-up and is in its warm-up phase
InferenceInWarmup ==
    /\ last'.op = "forward_begin"
    /\ ~grad_flag'
    /\ cfg.need_warmup /\ is_warmup(self.hm)

\* C25: a forward call with gradients disabled while the memory manager needs a
\* warm-up and is in its warm-up phase fails with the warm-up assertion, and the
\* memory manager (pre_iter has not run), the set of accessed chunks, the
\* accessed-memory counter and every chunk (its tensors' states, its being
\* gathered, its device) are as before the call
C25_WarmupInferenceRejected ==
    [][InferenceInWarmup =>
           /\ pc' = "error"
           /\ err'.kind = "assert_warmup"
           /\ self'.hm = self.hm
           /\ self'.cm = self.cm
           /\ self' = self]_vars

\* the call was refused after a backward pass of the warm-up iteration broke off:
\* the tensors that pass left outside their start state are still there, and the
\* chunks it had gathered are still counted
C25_Witness ==
    /\ pc = "error" /\ err.kind = "assert_warmup"
    /\ last.op = "forward_begin" /\ ~grad_flag
    /\ cfg.need_warmup /\ is_warmup(self.hm)
    /\ \E p \in Params : cm.tstate[p] # "HOLD"
    /\ accessed_chunks # {}
====
